---- MODULE Spec2Model ----
(***************************************************************************)
(* A model of the type-registry extraction of crux_cli's codegen:          *)
(*   parser.rs     edge extraction and the reachability program            *)
(*   node.rs       the ItemNode / SummaryNode adapters                     *)
(*   formatter.rs  the Formatter program and the name / type translation   *)
(* Strings are sequences of one-character strings, so that the regular     *)
(* expressions and the case conversions act on characters as the code does.*)
(* Option<T> is a sequence of length 0 (None) or 1 (Some).                 *)
(***************************************************************************)
EXTENDS Integers, Sequences, FiniteSets, TLC

VARIABLES
    pc,      \* position in the run: which stratum is evaluated next
    index,   \* the documentation index: the set of items (with their summaries)
    prog,    \* parser.rs AscentProgram: edge, app, effect, ..., output
    fm,      \* formatter.rs Formatter: edge, field, ..., container
    call     \* a call of a pure function: its arguments and its result

vars == <<pc, index, prog, fm, call>>

-----------------------------------------------------------------------------
(* Characters *)

LowerChars == <<"a","b","c","d","e","f","g","h","i","j","k","l","m",
                "n","o","p","q","r","s","t","u","v","w","x","y","z">>
UpperChars == <<"A","B","C","D","E","F","G","H","I","J","K","L","M",
                "N","O","P","Q","R","S","T","U","V","W","X","Y","Z">>
DigitChars == {"0","1","2","3","4","5","6","7","8","9"}

Range(s) == {s[i] : i \in DOMAIN s}

IsUpper(c) == c \in Range(UpperChars)
IsLower(c) == c \in Range(LowerChars)

\* char::to_ascii_uppercase / to_ascii_lowercase
ToUpper(c) ==
    IF IsLower(c) THEN UpperChars[CHOOSE i \in DOMAIN LowerChars : LowerChars[i] = c]
    ELSE c
ToLower(c) ==
    IF IsUpper(c) THEN LowerChars[CHOOSE i \in DOMAIN UpperChars : UpperChars[i] = c]
    ELSE c

StrUpper(s) == [i \in DOMAIN s |-> ToUpper(s[i])]
StrLower(s) == [i \in DOMAIN s |-> ToLower(s[i])]

\* str::replace('_', "-")
ReplaceUnderscore(s) == [i \in DOMAIN s |-> IF s[i] = "_" THEN "-" ELSE s[i]]

\* the regex classes \w and \s
IsWordChar(c) == IsUpper(c) \/ IsLower(c) \/ c \in DigitChars \/ c = "_"
IsSpace(c) == c \in {" ", "\t", "\n"}

None == <<>>
Some(v) == <<v>>
IsSome(o) == Len(o) = 1

-----------------------------------------------------------------------------
(* Regular expressions.  A pattern is a sequence of elements: a one-       *)
(* character literal, "\\s*" or "(\\w+)".  In the four patterns of the code *)
(* every "\\s*" and "(\\w+)" is followed by a literal outside its class, so *)
(* greedy matching without backtracking is exact.                          *)

ReWs == "\\s*"
ReWord == "(\\w+)"

\* the end (exclusive) of the longest run of characters of a class from i
RECURSIVE RunEnd(_, _, _)
RunEnd(s, i, word) ==
    IF i <= Len(s) /\ (IF word THEN IsWordChar(s[i]) ELSE IsSpace(s[i]))
    THEN RunEnd(s, i + 1, word)
    ELSE i

\* match pat[j..] against s at position i; Some(capture) or None
RECURSIVE MatchAt(_, _, _, _, _)
MatchAt(s, i, pat, j, cap) ==
    IF j > Len(pat) THEN Some(cap)
    ELSE IF pat[j] = ReWs THEN MatchAt(s, RunEnd(s, i, FALSE), pat, j + 1, cap)
    ELSE IF pat[j] = ReWord THEN
        LET e == RunEnd(s, i, TRUE) IN
        IF e = i THEN None
        ELSE MatchAt(s, e, pat, j + 1, SubSeq(s, i, e - 1))
    ELSE IF i <= Len(s) /\ s[i] = pat[j] THEN MatchAt(s, i + 1, pat, j + 1, cap)
    ELSE None

\* lazy_regex::regex_captures!: the leftmost match anywhere in the string
RegexCaptures(pat, s) ==
    LET hits == {i \in 1..Len(s) : IsSome(MatchAt(s, i, pat, 1, <<>>))} IN
    IF hits = {} THEN None
    ELSE MatchAt(s, CHOOSE i \in hits : \A k \in hits : i <= k, pat, 1, <<>>)

\* lazy_regex::regex_is_match!
RegexIsMatch(pat, s) == IsSome(RegexCaptures(pat, s))

\* Iterator::find_map over a list of attributes: the capture of the first
\* attribute that matches
FindMapCaptures(pat, attrs) ==
    LET hits == {i \in DOMAIN attrs : IsSome(RegexCaptures(pat, attrs[i]))} IN
    IF hits = {} THEN None
    ELSE RegexCaptures(pat, attrs[CHOOSE i \in hits : \A k \in hits : i <= k])

\* r#"\[serde\(rename\s*=\s*"(\w+)"\)\]"#
RenameRegex ==
    <<"[","s","e","r","d","e","(","r","e","n","a","m","e",
      ReWs, "=", ReWs, "\"", ReWord, "\"", ")", "]">>

\* r#"\[serde\(rename_all\s*=\s*"(\w+)"\)\]"#
RenameAllRegex ==
    <<"[","s","e","r","d","e","(","r","e","n","a","m","e","_","a","l","l",
      ReWs, "=", ReWs, "\"", ReWord, "\"", ")", "]">>

\* r#"\[serde\(with\s*=\s*"(\w+)"\)\]"#
WithRegex ==
    <<"[","s","e","r","d","e","(","w","i","t","h",
      ReWs, "=", ReWs, "\"", ReWord, "\"", ")", "]">>

\* r#"\[serde\s*\(\s*skip\s*\)\s*\]"#
SkipRegex ==
    <<"[","s","e","r","d","e", ReWs, "(", ReWs, "s","k","i","p", ReWs, ")", ReWs, "]">>

-----------------------------------------------------------------------------
(* The documentation index (rustdoc_types::Crate).                         *)
(* An item is a record                                                     *)
(*   id      the item's Id                                                 *)
(*   kind    the variant of ItemEnum, with StructKind / VariantKind folded  *)
(*           in: "StructUnit" "StructTuple" "StructPlain" "StructField"    *)
(*           "Enum" "VariantPlain" "VariantTuple" "VariantStruct" "Impl"   *)
(*           "AssocType" "Trait" "Module"                                  *)
(*   name    Option<String>                                                *)
(*   attrs   Vec<String>                                                   *)
(*   fields  Vec<Option<Id>>: the fields of a struct or variant, the       *)
(*           variants of an enum, the items of an impl (a plain list holds *)
(*           only Some)                                                    *)
(*   ty      Option<Type>: the type of a StructField or AssocType, the     *)
(*           for_ type of an Impl                                          *)
(*   trait   Option<Path>: the trait_ of an Impl                           *)
(* A type is a record [t, name, id, args, elems]:                          *)
(*   t       the variant of rustdoc_types::Type                            *)
(*   name    the path's or primitive's name                                *)
(*   id      the Id a ResolvedPath resolves to                             *)
(*   args    Option<GenericArgs>: None, or Some of                         *)
(*           [g |-> "AngleBracketed" or "Parenthesized", args |-> types]   *)
(*   elems   the element types of a Tuple                                  *)
(* index.items maps Id to Item (Crate::index), index.paths maps Id to the  *)
(* module path of its ItemSummary (Crate::paths).                          *)

ItemIds == DOMAIN index.items
Item(id) == index.items[id]

IsStructKind(k) == k \in {"StructUnit", "StructTuple", "StructPlain"}
IsVariantKind(k) == k \in {"VariantPlain", "VariantTuple", "VariantStruct"}

\* "__private_field"
PrivateFieldName == <<"_","_","p","r","i","v","a","t","e","_","f","i","e","l","d">>

-----------------------------------------------------------------------------
(* node.rs: SummaryNode and ItemNode *)

\* The outcome of a call that may panic: the value returned, or a panic.
Returned(v) == [panicked |-> FALSE, v |-> v]
Panicked == [panicked |-> TRUE, v |-> FALSE]

\* SummaryNode::in_same_module_as, on the two summaries' paths.
\* this[..(this.len() - 1)] subtracts in usize and slices: with len 0 the
\* subtraction overflows (a panic in a debug build) or wraps to usize::MAX
\* (a slice end out of range, a panic, in a release build).
InSameModuleAs(this, other) ==
    IF Len(this) # Len(other) THEN Returned(FALSE)
    ELSE IF Len(this) = 0 THEN Panicked
    ELSE Returned(SubSeq(this, 1, Len(this) - 1) = SubSeq(other, 1, Len(other) - 1))

\* the last capture of the rename regex over the attributes, in order:
\* the loop of ItemNode::name overwrites new_name on every match
RECURSIVE LastRename(_, _, _)
LastRename(attrs, i, new_name) ==
    IF i > Len(attrs) THEN new_name
    ELSE LET c == RegexCaptures(RenameRegex, attrs[i]) IN
         LastRename(attrs, i + 1, IF IsSome(c) THEN c[1] ELSE new_name)

\* ItemNode::name
ItemNode_name(item) ==
    LET new_name == LastRename(item.attrs, 1, <<>>) IN
    IF new_name = <<>> THEN item.name ELSE Some(new_name)

\* ItemNode::is_struct_unit / is_struct_plain / is_struct_tuple / is_enum
ItemNode_is_struct_unit(item) == item.kind = "StructUnit"
ItemNode_is_struct_plain(item) == item.kind = "StructPlain"
ItemNode_is_struct_tuple(item) == item.kind = "StructTuple"
ItemNode_is_enum(item) == item.kind = "Enum"

\* ItemNode::should_skip
ItemNode_should_skip(item) ==
    \E i \in DOMAIN item.attrs : RegexIsMatch(SkipRegex, item.attrs[i])

\* fields.iter().filter_map(|f| f.as_ref()): the ids that are present
PresentIds(fields) ==
    LET some == SelectSeq(fields, IsSome) IN [i \in DOMAIN some |-> some[i][1]]

\* the field_ids of ItemNode::fields: empty for StructUnit, VariantPlain and
\* every item that is neither a struct nor a variant
DeclaredFieldIds(item) ==
    IF item.kind \in {"StructPlain", "StructTuple", "VariantTuple", "VariantStruct"}
    THEN PresentIds(item.fields)
    ELSE <<>>

\* the filter_map of ItemNode::fields and ItemNode::variants: each declared id
\* that some collected, non-skipped node carries, in declaration order
FilterDeclared(ids, collected) ==
    LET keep(id) == \E f \in collected : ~ItemNode_should_skip(Item(f)) /\ f = id IN
    SelectSeq(ids, keep)

\* ItemNode::fields
ItemNode_fields(item, collected) == FilterDeclared(DeclaredFieldIds(item), collected)

\* ItemNode::has_field
ItemNode_has_field(item, field) ==
    IF ItemNode_should_skip(field) THEN FALSE
    ELSE IF IsStructKind(item.kind) THEN
        IF ItemNode_name(field) = Some(PrivateFieldName) THEN FALSE
        ELSE IF item.kind = "StructUnit" THEN FALSE
        ELSE Some(field.id) \in Range(item.fields)
    ELSE IF IsVariantKind(item.kind) THEN
        IF item.kind = "VariantPlain" THEN FALSE
        ELSE Some(field.id) \in Range(item.fields)
    ELSE FALSE

\* ItemNode::variants
ItemNode_variants(item, collected) ==
    FilterDeclared(IF item.kind = "Enum" THEN PresentIds(item.fields) ELSE <<>>,
                   collected)

\* ItemNode::has_variant
ItemNode_has_variant(item, variant) ==
    IF ItemNode_should_skip(variant) THEN FALSE
    ELSE IF item.kind = "Enum" THEN Some(variant.id) \in Range(item.fields)
    ELSE FALSE

\* ItemNode::is_impl_for
ItemNode_is_impl_for(item, for_, trait_name) ==
    /\ item.kind = "Impl"
    /\ IsSome(item.trait)
    /\ IsSome(item.ty) /\ item.ty[1].t = "ResolvedPath"
    /\ item.trait[1].name = trait_name
    /\ item.ty[1].id = for_.id

-----------------------------------------------------------------------------
(* serde/case.rs: RenameRule.  The file is not among the sources; the rules *)
(* are the ones section 4.6 of the specification names, transforming fields *)
(* from snake_case and variants from PascalCase.                            *)

Str_lowercase == <<"l","o","w","e","r","c","a","s","e">>
Str_UPPERCASE == <<"U","P","P","E","R","C","A","S","E">>
Str_PascalCase == <<"P","a","s","c","a","l","C","a","s","e">>
Str_camelCase == <<"c","a","m","e","l","C","a","s","e">>
Str_snake_case == <<"s","n","a","k","e","_","c","a","s","e">>
Str_SCREAMING_SNAKE_CASE ==
    <<"S","C","R","E","A","M","I","N","G","_","S","N","A","K","E","_","C","A","S","E">>
Str_kebab_case == <<"k","e","b","a","b","-","c","a","s","e">>
Str_SCREAMING_KEBAB_CASE ==
    <<"S","C","R","E","A","M","I","N","G","-","K","E","B","A","B","-","C","A","S","E">>

\* RenameRule::from_str(..).unwrap_or(RenameRule::None)
RenameRule_from_str(s) ==
    IF s = Str_lowercase THEN "LowerCase"
    ELSE IF s = Str_UPPERCASE THEN "UpperCase"
    ELSE IF s = Str_PascalCase THEN "PascalCase"
    ELSE IF s = Str_camelCase THEN "CamelCase"
    ELSE IF s = Str_snake_case THEN "SnakeCase"
    ELSE IF s = Str_SCREAMING_SNAKE_CASE THEN "ScreamingSnakeCase"
    ELSE IF s = Str_kebab_case THEN "KebabCase"
    ELSE IF s = Str_SCREAMING_KEBAB_CASE THEN "ScreamingKebabCase"
    ELSE "None"

\* s[..1].to_ascii_lowercase() + &s[1..]
LowerFirst(s) == [i \in DOMAIN s |-> IF i = 1 THEN ToLower(s[i]) ELSE s[i]]

\* PascalCase to snake_case: an underscore before every upper-case character
\* but the first, every character lower-cased
RECURSIVE VariantToSnake(_, _)
VariantToSnake(s, i) ==
    IF i > Len(s) THEN <<>>
    ELSE (IF i > 1 /\ IsUpper(s[i]) THEN <<"_">> ELSE <<>>)
         \o <<ToLower(s[i])>> \o VariantToSnake(s, i + 1)

\* snake_case to PascalCase: underscores dropped, the first character and
\* every character after an underscore upper-cased
RECURSIVE FieldToPascal(_, _, _)
FieldToPascal(s, i, capitalize) ==
    IF i > Len(s) THEN <<>>
    ELSE IF s[i] = "_" THEN FieldToPascal(s, i + 1, TRUE)
    ELSE IF capitalize THEN <<ToUpper(s[i])>> \o FieldToPascal(s, i + 1, FALSE)
    ELSE <<s[i]>> \o FieldToPascal(s, i + 1, FALSE)

\* RenameRule::apply_to_variant
RenameRule_apply_to_variant(rule, variant) ==
    CASE rule \in {"None", "PascalCase"} -> variant
      [] rule = "LowerCase" -> StrLower(variant)
      [] rule = "UpperCase" -> StrUpper(variant)
      [] rule = "CamelCase" -> LowerFirst(variant)
      [] rule = "SnakeCase" -> VariantToSnake(variant, 1)
      [] rule = "ScreamingSnakeCase" -> StrUpper(VariantToSnake(variant, 1))
      [] rule = "KebabCase" -> ReplaceUnderscore(VariantToSnake(variant, 1))
      [] rule = "ScreamingKebabCase" ->
            ReplaceUnderscore(StrUpper(VariantToSnake(variant, 1)))

\* RenameRule::apply_to_field
RenameRule_apply_to_field(rule, field) ==
    CASE rule \in {"None", "LowerCase", "SnakeCase"} -> field
      [] rule = "UpperCase" -> StrUpper(field)
      [] rule = "PascalCase" -> FieldToPascal(field, 1, TRUE)
      [] rule = "CamelCase" -> LowerFirst(FieldToPascal(field, 1, TRUE))
      [] rule = "ScreamingSnakeCase" -> StrUpper(field)
      [] rule = "KebabCase" -> ReplaceUnderscore(field)
      [] rule = "ScreamingKebabCase" -> ReplaceUnderscore(StrUpper(field))

-----------------------------------------------------------------------------
(* formatter.rs: variant_name and field_name *)

\* variant_name
variant_name(name, variant_attrs, enum_attrs) ==
    LET rename == FindMapCaptures(RenameRegex, variant_attrs)
        rename_all == FindMapCaptures(RenameAllRegex, enum_attrs)
    IN  IF IsSome(rename) THEN rename[1]
        ELSE IF IsSome(rename_all)
        THEN RenameRule_apply_to_variant(RenameRule_from_str(rename_all[1]), name)
        ELSE name

\* field_name
field_name(name, field_attrs, struct_attrs) ==
    LET rename == FindMapCaptures(RenameRegex, field_attrs)
        rename_all == FindMapCaptures(RenameAllRegex, struct_attrs)
    IN  IF IsSome(rename) THEN rename[1]
        ELSE IF IsSome(rename_all)
        THEN RenameRule_apply_to_field(RenameRule_from_str(rename_all[1]), name)
        ELSE name

-----------------------------------------------------------------------------
(* formatter.rs: impl From<&Type> for Format.                              *)
(* A Format is a record [f, n, of]: f the variant of Format, n the name of *)
(* a TypeName, of the formats it contains (one for Option and Seq, the     *)
(* elements for Tuple).  A translation that panics (todo!(), panic!(), an  *)
(* index out of range) yields PanicFormat in that place.                   *)

Fmt(f) == [f |-> f, n |-> <<>>, of |-> <<>>]
FmtTypeName(n) == [f |-> "TypeName", n |-> n, of |-> <<>>]
FmtOf(f, of) == [f |-> f, n |-> <<>>, of |-> of]
PanicFormat == Fmt("!panic")

RECURSIVE FormatPanics(_)
FormatPanics(fmt) ==
    fmt.f = "!panic" \/ \E i \in DOMAIN fmt.of : FormatPanics(fmt.of[i])

\* std::mem::size_of::<isize>() and size_of::<usize>() of the host
PointerBytes == 8

Str_Option == <<"O","p","t","i","o","n">>
Str_String == <<"S","t","r","i","n","g">>
Str_Vec == <<"V","e","c">>

\* str::rsplit_once("::"): the start of the last "::" in s, or 0
LastColons(s) ==
    LET hits == {i \in 1..(Len(s) - 1) : s[i] = ":" /\ s[i + 1] = ":"} IN
    IF hits = {} THEN 0 ELSE CHOOSE i \in hits : \A k \in hits : k <= i

\* path_to_string
path_to_string(name) ==
    IF LastColons(name) = 0 THEN name
    ELSE SubSeq(name, LastColons(name) + 2, Len(name))

\* the Type::Primitive arm
PrimitiveFormat(name) ==
    CASE name = <<"b","o","o","l">> -> Fmt("Bool")
      [] name = <<"c","h","a","r">> -> Fmt("Char")
      [] name = <<"i","s","i","z","e">> ->
            (CASE PointerBytes = 4 -> Fmt("I32")
               [] PointerBytes = 8 -> Fmt("I64")
               [] OTHER -> PanicFormat)
      [] name = <<"i","8">> -> Fmt("I8")
      [] name = <<"i","1","6">> -> Fmt("I16")
      [] name = <<"i","3","2">> -> Fmt("I32")
      [] name = <<"i","6","4">> -> Fmt("I64")
      [] name = <<"i","1","2","8">> -> Fmt("I128")
      [] name = <<"u","s","i","z","e">> ->
            (CASE PointerBytes = 4 -> Fmt("U32")
               [] PointerBytes = 8 -> Fmt("U64")
               [] OTHER -> PanicFormat)
      [] name = <<"u","8">> -> Fmt("U8")
      [] name = <<"u","1","6">> -> Fmt("U16")
      [] name = <<"u","3","2">> -> Fmt("U32")
      [] name = <<"u","6","4">> -> Fmt("U64")
      [] name = <<"u","1","2","8">> -> Fmt("U128")
      [] OTHER -> PanicFormat

\* impl From<&Type> for Format
RECURSIVE Format_from(_)
Format_from(ty) ==
    CASE ty.t = "ResolvedPath" ->
            IF IsSome(ty.args) THEN
                LET ga == ty.args[1]
                    \* match args[0] { GenericArg::Type(ref type_) => type_.into(),
                    \*                 _ => todo!() }
                    first == IF Len(ga.args) = 0 THEN PanicFormat
                             ELSE IF ga.args[1].a = "Type" THEN Format_from(ga.args[1].ty)
                             ELSE PanicFormat
                IN  IF ga.g = "AngleBracketed" THEN
                        CASE ty.name = Str_Option -> FmtOf("Option", <<first>>)
                          [] ty.name = Str_String -> Fmt("Str")
                          [] ty.name = Str_Vec -> FmtOf("Seq", <<first>>)
                          [] OTHER -> FmtTypeName(path_to_string(ty.name))
                    ELSE PanicFormat
            ELSE FmtTypeName(path_to_string(ty.name))
      [] ty.t = "Primitive" -> PrimitiveFormat(ty.name)
      [] ty.t = "Tuple" ->
            FmtOf("Tuple", [i \in DOMAIN ty.elems |-> Format_from(ty.elems[i])])
      [] ty.t = "QualifiedPath" -> FmtTypeName(ty.name)
      \* DynTrait, Generic, FunctionPointer, Slice, Array, Pat, ImplTrait, Infer,
      \* RawPointer, BorrowedRef: todo!()
      [] OTHER -> PanicFormat

-----------------------------------------------------------------------------
(* formatter.rs: the functions the rules of the Formatter call.            *)
(* Indexed<T> is [index, value]; Named<T> is [name, value].                *)
(* A VariantFormat is [v, fs]: Unit, NewType (fs holds the one format),    *)
(* Tuple (fs the formats), Struct (fs the named formats).                  *)
(* A ContainerFormat is [c, fs]: UnitStruct, NewTypeStruct, TupleStruct,   *)
(* Struct as above, and Enum, whose fs lists the BTreeMap's entries        *)
(* [index, value] in key order.                                            *)

Indexed(i, v) == [index |-> i, value |-> v]
Named(n, v) == [name |-> n, value |-> v]

\* a position counted from the end of the list instead of its start
PositionFromEnd(all, x) ==
    LET hits == {i \in DOMAIN all : all[i] = x} IN
    IF hits = {} THEN None ELSE Some(Len(all) - (CHOOSE i \in hits : \A k \in hits : i <= k))

\* all_fields.iter().position(|f| f == field): a 0-based Option<usize>
Position(all, x) ==
    LET hits == {i \in DOMAIN all : all[i] = x} IN
    IF hits = {} THEN None ELSE Some((CHOOSE i \in hits : \A k \in hits : i <= k) - 1)

Str_serde_bytes == <<"s","e","r","d","e","_","b","y","t","e","s">>

\* the value of make_format's Indexed: the serde(with) override, else the
\* translation of the declared type
FieldFormat(field) ==
    LET serde_with == FindMapCaptures(WithRegex, field.attrs) IN
    IF IsSome(serde_with) THEN
        IF serde_with[1] = Str_serde_bytes THEN Fmt("Bytes") ELSE PanicFormat
    ELSE Format_from(field.ty[1])

\* make_format: Option<Indexed<Format>>
make_format(field, all_fields) ==
    LET index_ == Position(all_fields, field.id) IN
    IF ~IsSome(index_) THEN None
    ELSE IF field.kind = "StructField" THEN Some(Indexed(index_[1], FieldFormat(field)))
    ELSE None

\* make_named_format: Option<Indexed<Named<Format>>>
make_named_format(field, all_fields, struct_) ==
    LET name == ItemNode_name(field)
        format == make_format(field, all_fields)
    IN  IF IsSome(name) /\ IsSome(format)
        THEN Some(Indexed(format[1].index,
                          Named(field_name(name[1], field.attrs, struct_.attrs),
                                format[1].value)))
        ELSE None

\* is_plain_variant / is_struct_variant / is_tuple_variant
is_plain_variant(variant) == variant.kind = "VariantPlain"
is_struct_variant(variant) == variant.kind = "VariantStruct"
is_tuple_variant(variant) == variant.kind = "VariantTuple"

\* fields.sort() followed by .inner() of each: the values in index order
\* (Indexed orders by index first, and no two formats of one parent share one)
RECURSIVE SortedValues(_)
SortedValues(formats) ==
    IF formats = {} THEN <<>>
    ELSE LET m == CHOOSE x \in formats : \A y \in formats : x.index <= y.index IN
         <<m.value>> \o SortedValues(formats \ {m})

\* the match on fields.len() of make_tuple_variant_format
TupleVariantValue(fields) ==
    CASE Len(fields) = 0 -> [v |-> "Unit", fs |-> <<>>]
      [] Len(fields) = 1 -> [v |-> "NewType", fs |-> <<fields[1]>>]
      [] OTHER -> [v |-> "Tuple", fs |-> fields]

\* the part the three make_*_variant_format functions share: the position of
\* the variant, its name, and the value wrapped in Indexed and Named
VariantFormatOf(variant, value, all_variants, enum_) ==
    LET index_ == Position(all_variants, variant.id) IN
    IF ~IsSome(index_) THEN None
    ELSE IF IsSome(variant.name) /\ IsVariantKind(variant.kind)
    THEN Some(Indexed(index_[1],
                      Named(variant_name(variant.name[1], variant.attrs, enum_.attrs),
                            value)))
    ELSE None

\* make_plain_variant_format
make_plain_variant_format(variant, all_variants, enum_) ==
    VariantFormatOf(variant, [v |-> "Unit", fs |-> <<>>], all_variants, enum_)

\* make_struct_variant_format
make_struct_variant_format(variant, fields, all_variants, enum_) ==
    VariantFormatOf(variant, [v |-> "Struct", fs |-> SortedValues(fields)],
                    all_variants, enum_)

\* make_tuple_variant_format
make_tuple_variant_format(variant, fields, all_variants, enum_) ==
    VariantFormatOf(variant, TupleVariantValue(SortedValues(fields)),
                    all_variants, enum_)

\* make_struct_unit
make_struct_unit == [c |-> "UnitStruct", fs |-> <<>>]

\* make_struct_plain
make_struct_plain(fields) ==
    LET sorted == SortedValues(fields) IN
    IF Len(sorted) = 0 THEN [c |-> "UnitStruct", fs |-> <<>>]
    ELSE [c |-> "Struct", fs |-> sorted]

\* a tuple struct that keeps TupleStruct for a single field
make_struct_tuple_uncollapsed(fields) ==
    LET sorted == SortedValues(fields) IN
    IF Len(sorted) = 0 THEN [c |-> "UnitStruct", fs |-> <<>>]
    ELSE [c |-> "TupleStruct", fs |-> sorted]

\* make_struct_tuple
make_struct_tuple(fields) ==
    LET sorted == SortedValues(fields) IN
    CASE Len(sorted) = 0 -> [c |-> "UnitStruct", fs |-> <<>>]
      [] Len(sorted) = 1 -> [c |-> "NewTypeStruct", fs |-> <<sorted[1]>>]
      [] OTHER -> [c |-> "TupleStruct", fs |-> sorted]

\* the entries of a BTreeMap<u32, _> in key order
RECURSIVE MapEntries(_)
MapEntries(formats) ==
    IF formats = {} THEN <<>>
    ELSE LET m == CHOOSE x \in formats : \A y \in formats : x.index <= y.index IN
         <<m>> \o MapEntries(formats \ {m})

\* make_enum
make_enum(formats) == [c |-> "Enum", fs |-> MapEntries(formats)]

-----------------------------------------------------------------------------
(* parser.rs: edge extraction.  A Node is addressed by its Id; its item is *)
(* index.items[id] when the index holds one and its summary is             *)
(* index.paths[id] when the paths hold one.                                *)

\* Data::node_by_id (data.rs is not among the sources): an Id resolves to a
\* Node when the index or the paths hold it, and to nothing otherwise
NodeExists(id) == id \in DOMAIN index.items \/ id \in DOMAIN index.paths

Str_App == <<"A","p","p">>
Str_Effect == <<"E","f","f","e","c","t">>
Str_Event == <<"E","v","e","n","t">>
Str_ViewModel == <<"V","i","e","w","M","o","d","e","l">>
Str_Capabilities == <<"C","a","p","a","b","i","l","i","t","i","e","s">>
Str_Ffi == <<"F","f","i">>

\* "#[serde(skip)]"
Str_serde_skip == <<"#","[","s","e","r","d","e","(","s","k","i","p",")","]">>

\* item.attrs.contains(&"#[serde(skip)]".to_string())
ParseSkips(item) == Str_serde_skip \in Range(item.attrs)

\* process_args: the Type edges of the resolved paths among the type
\* arguments; an argument whose Id does not resolve is passed over whole
RECURSIVE process_args(_, _)
process_args(source, ga) ==
    IF ga.g # "AngleBracketed" THEN {}
    ELSE UNION {
        LET arg == ga.args[i] IN
        IF arg.a = "Type" /\ arg.ty.t = "ResolvedPath" /\ NodeExists(arg.ty.id)
        THEN {<<source, arg.ty.id, "Type">>}
             \cup (IF IsSome(arg.ty.args) THEN process_args(source, arg.ty.args[1])
                   ELSE {})
        ELSE {} : i \in DOMAIN ga.args }

\* the Field (or Variant) edges to the ids of a list that resolve
ChildEdges(source, fields, label) ==
    {<<source, fields[i][1], label>> :
        i \in {k \in DOMAIN fields : IsSome(fields[k]) /\ NodeExists(fields[k][1])}}

\* the ItemEnum::Impl arm of parse
ImplEdges(source, item) ==
    IF ~(IsSome(item.trait) /\ IsSome(item.ty) /\ item.ty[1].t = "ResolvedPath") THEN {}
    ELSE LET trait_name == item.trait[1].name
             trait_id == item.trait[1].id
             for_type_id == item.ty[1].id
             assoc(i) ==
                 LET d == item.fields[i][1] IN
                 /\ NodeExists(d)
                 /\ (d \in DOMAIN index.items /\ IsSome(Item(d).name))
                        => Item(d).name[1] \in {Str_Event, Str_ViewModel, Str_Capabilities}
         IN  IF trait_name \notin {Str_App, Str_Effect} THEN {}
             ELSE IF ~NodeExists(trait_id) THEN {}
             ELSE {<<source, trait_id,
                     IF trait_name = Str_App THEN "TraitApp" ELSE "TraitEffect">>}
                  \cup (IF ~NodeExists(for_type_id) THEN {}
                        ELSE {<<source, for_type_id, "Type">>}
                             \cup {<<source, item.fields[i][1], "AssociatedItem">> :
                                     i \in {k \in DOMAIN item.fields : assoc(k)}})

\* the body of the loop of parse for one item of the index: its edges
ItemEdges(id) ==
    LET item == Item(id) IN
    IF ~NodeExists(id) \/ ParseSkips(item) THEN {}
    ELSE CASE item.kind \in {"StructTuple", "StructPlain"} ->
                ChildEdges(id, item.fields, "Field")
           [] item.kind = "StructField" ->
                IF item.ty[1].t = "ResolvedPath" /\ NodeExists(item.ty[1].id)
                THEN {<<id, item.ty[1].id, "Type">>}
                     \cup (IF IsSome(item.ty[1].args)
                           THEN process_args(id, item.ty[1].args[1]) ELSE {})
                ELSE {}
           [] item.kind = "Enum" -> ChildEdges(id, item.fields, "Variant")
           [] item.kind \in {"VariantTuple", "VariantStruct"} ->
                ChildEdges(id, item.fields, "Field")
           [] item.kind = "Impl" -> ImplEdges(id, item)
           [] item.kind = "AssocType" ->
                IF ~(IsSome(item.ty) /\ item.ty[1].t = "ResolvedPath") THEN {}
                ELSE IF IsSome(item.name)
                        /\ item.name[1] \notin {Str_Event, Str_ViewModel, Str_Ffi} THEN {}
                ELSE IF NodeExists(item.ty[1].id)
                THEN {<<id, item.ty[1].id, "AssociatedType">>}
                ELSE {}
           [] OTHER -> {}

\* the loop of parse over data.crate_.index
ParsedEdges == UNION {ItemEdges(id) : id \in ItemIds}

-----------------------------------------------------------------------------
(* parser.rs: the rules of the reachability program *)

Summary(id) == IF id \in DOMAIN index.paths THEN Some(index.paths[id]) ELSE None

\* are_in_same_module: false unless both nodes carry a summary; then the
\* same length test, subtraction and slices as SummaryNode::in_same_module_as
are_in_same_module(app, effect) ==
    IF ~(IsSome(Summary(app)) /\ IsSome(Summary(effect))) THEN Returned(FALSE)
    ELSE LET app_path == Summary(app)[1]
             effect_path == Summary(effect)[1]
         IN  IF Len(app_path) # Len(effect_path) THEN Returned(FALSE)
             ELSE IF Len(app_path) = 0 THEN Panicked
             ELSE Returned(\A i \in 1..(Len(app_path) - 1) : app_path[i] = effect_path[i])

\* app(app) <-- edge(app_impl, app_trait, TraitApp), edge(app_impl, app, Type)
\* (and the same rule for effect, with TraitEffect)
ImplTargets(edge, trait_label) ==
    {e[2] : e \in {e \in edge : e[3] = "Type"
                       /\ \E t \in edge : t[1] = e[1] /\ t[3] = trait_label}}

\* is_effect_of_app(app, effect) <-- app(app), effect(effect),
\*     if are_in_same_module(app, effect)
IsEffectOfAppRule(app, effect) ==
    {ae \in app \X effect : are_in_same_module(ae[1], ae[2]).v}

\* a call of are_in_same_module by the rule panics
IsEffectOfAppPanics(app, effect) ==
    \E ae \in app \X effect : are_in_same_module(ae[1], ae[2]).panicked

\* parent(parent, child) <-- app(parent), app(child),
\*     edge(parent, field, Field), edge(field, child, Type)
ParentRule(edge, app) ==
    {pc_ \in app \X app :
        \E f \in edge : f[1] = pc_[1] /\ f[3] = "Field"
                        /\ <<f[2], pc_[2], "Type">> \in edge}

HasParent(parent, a) == \E p \in parent : p[2] = a

\* the two rules of root
RootRule(edge, parent, is_effect_of_app) ==
    {t[2] : t \in {t \in edge : t[3] = "AssociatedType" /\
            \E i \in edge : /\ i[3] = "AssociatedItem" /\ i[2] = t[1]
                            /\ \E tr \in edge : tr[1] = i[1] /\ tr[3] = "TraitApp"
                            /\ \E a \in edge : /\ a[1] = i[1] /\ a[3] = "Type"
                                               /\ ~HasParent(parent, a[2])}}
    \cup {ae[2] : ae \in {ae \in is_effect_of_app : ~HasParent(parent, ae[1])}}

\* a round of output that takes every Variant, Field or Type edge, from a
\* root or not
OutputRoundUnrooted(edge, root, output) ==
    {<<e[1], e[2]>> : e \in {d \in edge : d[3] \in {"Variant", "Field", "Type"}}}

\* one round of the two rules of output over the tuples derived so far
OutputRound(edge, root, output) ==
    {<<e[1], e[2]>> : e \in {e \in edge : e[1] \in root /\ e[3] \in {"Variant", "Field"}}}
    \cup {<<e[1], e[2]>> : e \in {e \in edge : /\ e[3] \in {"Variant", "Field", "Type"}
                                               /\ \E o \in output : o[2] = e[1]}}

-----------------------------------------------------------------------------
(* formatter.rs: the rules of the Formatter, each over the relations of the *)
(* lower strata.  Relations hold Ids; ItemNode equality is equality of the *)
(* items, which the index gives one per Id.                                *)

Sources(edge) == {e[1] : e \in edge}

\* struct_unit(s) <-- edge(s, _), if s.is_struct_unit();
StructUnitRule(edge) == {s_ \in Sources(edge) : ItemNode_is_struct_unit(Item(s_))}

\* struct_plain(s) <-- edge(s, _), if s.is_struct_plain();
StructPlainRule(edge) == {s_ \in Sources(edge) : ItemNode_is_struct_plain(Item(s_))}

\* struct_tuple(s) <-- edge(s, _), if s.is_struct_tuple();
StructTupleRule(edge) == {s_ \in Sources(edge) : ItemNode_is_struct_tuple(Item(s_))}

\* field(x, f) <-- edge(x, f), if x.has_field(f);
FieldRule(edge) == {e \in edge : ItemNode_has_field(Item(e[1]), Item(e[2]))}

\* variant(e, v) <-- edge(e, v), if e.has_variant(v);
VariantRule(edge) == {e \in edge : ItemNode_has_variant(Item(e[1]), Item(e[2]))}

\* agg xs = collect(y) in rel(x, y)
Collect(rel, x) == {r[2] : r \in {r \in rel : r[1] = x}}

\* fields(x, fields) <-- field(x, f), agg fs = collect(f) in field(x, f),
\*     let fields = x.fields(fs);
FieldsRule(field) ==
    {<<x, ItemNode_fields(Item(x), Collect(field, x))>> : x \in Sources(field)}

\* variants(e, variants) <-- variant(e, v), agg vs = collect(v) in variant(e, v),
\*     let variants = e.variants(vs);
VariantsRule(variant) ==
    {<<x, ItemNode_variants(Item(x), Collect(variant, x))>> : x \in Sources(variant)}

\* variant_plain / variant_tuple / variant_struct
VariantPlainRule(variant) == {r \in variant : is_plain_variant(Item(r[2]))}
VariantTupleRule(variant) == {r \in variant : is_tuple_variant(Item(r[2]))}
VariantStructRule(variant) == {r \in variant : is_struct_variant(Item(r[2]))}

\* the Some results of a rule's "if let Some(format) = ..." over its joins
SomeOf(results) == {<<r[1], r[2][1]>> : r \in {r \in results : IsSome(r[2])}}

\* format(x, format) <-- field(x, field), fields(x, fields),
\*     if let Some(format) = make_format(field, fields);
FormatRule(field, fields) ==
    SomeOf({<<j[1][1], make_format(Item(j[1][2]), j[2][2])>> :
              j \in {j \in field \X fields : j[1][1] = j[2][1]}})

\* format_named(x, format) <-- field(x, field), fields(x, fields),
\*     if let Some(format) = make_named_format(field, fields, x);
FormatNamedRule(field, fields) ==
    SomeOf({<<j[1][1], make_named_format(Item(j[1][2]), j[2][2], Item(j[1][1]))>> :
              j \in {j \in field \X fields : j[1][1] = j[2][1]}})

\* format_plain_variant(e, format) <-- variant_plain(e, v), variants(e, variants),
\*     if let Some(format) = make_plain_variant_format(v, variants, e);
FormatPlainVariantRule(variant_plain, variants) ==
    SomeOf({<<j[1][1], make_plain_variant_format(Item(j[1][2]), j[2][2], Item(j[1][1]))>> :
              j \in {j \in variant_plain \X variants : j[1][1] = j[2][1]}})

\* format_tuple_variant(e, format) <-- variant_tuple(e, v), variants(e, variants),
\*     agg formats = collect(format) in format(v, format),
\*     if let Some(format) = make_tuple_variant_format(v, &formats, variants, e);
FormatTupleVariantRule(variant_tuple, variants, format) ==
    SomeOf({<<j[1][1], make_tuple_variant_format(Item(j[1][2]), Collect(format, j[1][2]),
                                                  j[2][2], Item(j[1][1]))>> :
              j \in {j \in variant_tuple \X variants : j[1][1] = j[2][1]}})

\* format_struct_variant(e, format) <-- variant_struct(e, v), variants(e, variants),
\*     agg formats = collect(format) in format_named(v, format),
\*     if let Some(format) = make_struct_variant_format(v, &formats, variants, e);
FormatStructVariantRule(variant_struct, variants, format_named) ==
    SomeOf({<<j[1][1], make_struct_variant_format(Item(j[1][2]),
                                                   Collect(format_named, j[1][2]),
                                                   j[2][2], Item(j[1][1]))>> :
              j \in {j \in variant_struct \X variants : j[1][1] = j[2][1]}})

\* the "if let Some(name) = s.name()" of the container rules, over a set of
\* aggregates with the container each one gets
Keyed(made) ==
    {<<ItemNode_name(Item(m[1]))[1], m[2]>> :
        m \in {m \in made : IsSome(ItemNode_name(Item(m[1])))}}

\* container(name, container) <-- struct_plain(s),
\*     agg fields = collect(format) in format_named(s, format),
\*     if let Some(name) = s.name(), let container = make_struct_plain(&fields);
ContainerPlainRule(struct_plain, format_named) ==
    Keyed({<<s_, make_struct_plain(Collect(format_named, s_))>> : s_ \in struct_plain})

\* container(name, container) <-- struct_unit(s), if let Some(name) = s.name(),
\*     let container = make_struct_unit();
ContainerUnitRule(struct_unit) ==
    Keyed({<<s_, make_struct_unit>> : s_ \in struct_unit})

\* container(name, container) <-- struct_tuple(s),
\*     agg fields = collect(format) in format(s, format),
\*     if let Some(name) = s.name(), let container = make_struct_tuple(&fields);
ContainerTupleRule(struct_tuple, format) ==
    Keyed({<<s_, make_struct_tuple(Collect(format, s_))>> : s_ \in struct_tuple})

\* container(name, container) <-- variant(e, _),
\*     agg variants = collect(format) in format_variant(e, format),
\*     if let Some(name) = e.name(), let container = make_enum(&variants);
ContainerEnumRule(variant, format_variant) ==
    Keyed({<<e, make_enum(Collect(format_variant, e))>> : e \in Sources(variant)})

-----------------------------------------------------------------------------
(* The run: parse (parser.rs), the hand-over of its output to the           *)
(* Formatter, and the Formatter's strata (formatter.rs), in the order the   *)
(* rules depend on each other.                                              *)

NoProg ==
    [edge |-> {}, app |-> {}, effect |-> {}, is_effect_of_app |-> {},
     parent |-> {}, root |-> {}, output |-> {}]

NoFormatter ==
    [edge |-> {}, struct_unit |-> {}, struct_plain |-> {}, struct_tuple |-> {},
     field |-> {}, fields |-> {}, variant |-> {}, variants |-> {},
     variant_plain |-> {}, variant_tuple |-> {}, variant_struct |-> {},
     format |-> {}, format_named |-> {},
     format_plain_variant |-> {}, format_tuple_variant |-> {},
     format_struct_variant |-> {}, format_variant |-> {}, container |-> {}]

NoCall == [fn |-> "none"]

\* parse: the loop over the index that pushes the edges
ParseEdges ==
    /\ pc = "parse"
    /\ prog' = [prog EXCEPT !.edge = ParsedEdges]
    /\ pc' = "app"
    /\ UNCHANGED <<index, fm, call>>

\* prog.run(): app and effect
RuleApp ==
    /\ pc = "app"
    /\ prog' = [prog EXCEPT !.app = ImplTargets(prog.edge, "TraitApp"),
                            !.effect = ImplTargets(prog.edge, "TraitEffect")]
    /\ pc' = "is_effect_of_app"
    /\ UNCHANGED <<index, fm, call>>

\* prog.run(): is_effect_of_app; a panic of are_in_same_module ends the run
RuleIsEffectOfApp ==
    /\ pc = "is_effect_of_app"
    /\ IF IsEffectOfAppPanics(prog.app, prog.effect)
       THEN pc' = "panicked" /\ UNCHANGED prog
       ELSE /\ prog' = [prog EXCEPT
                          !.is_effect_of_app = IsEffectOfAppRule(prog.app, prog.effect)]
            /\ pc' = "parent"
    /\ UNCHANGED <<index, fm, call>>

\* prog.run(): parent
RuleParent ==
    /\ pc = "parent"
    /\ prog' = [prog EXCEPT !.parent = ParentRule(prog.edge, prog.app)]
    /\ pc' = "root"
    /\ UNCHANGED <<index, fm, call>>

\* prog.run(): root, after parent is complete (the rule negates parent)
RuleRoot ==
    /\ pc = "root"
    /\ prog' = [prog EXCEPT
                  !.root = RootRule(prog.edge, prog.parent, prog.is_effect_of_app)]
    /\ pc' = "output"
    /\ UNCHANGED <<index, fm, call>>

\* prog.run(): one iteration of the recursive stratum of output
RuleOutput ==
    /\ pc = "output"
    /\ ~(OutputRound(prog.edge, prog.root, prog.output) \subseteq prog.output)
    /\ prog' = [prog EXCEPT
                  !.output = prog.output
                             \cup OutputRound(prog.edge, prog.root, prog.output)]
    /\ UNCHANGED <<pc, index, fm, call>>

\* the edges logic::run hands to the Formatter: the pairs of parse's output
\* (mod.rs passes the result of parse on; logic.rs is not among the sources),
\* as ItemNodes, which takes both nodes to carry an item
FormatterEdges(output) ==
    {o \in output : o[1] \in DOMAIN index.items /\ o[2] \in DOMAIN index.items}

\* parse returns prog.output once no rule adds a tuple; the Formatter starts
RunFormatter ==
    /\ pc = "output"
    /\ OutputRound(prog.edge, prog.root, prog.output) \subseteq prog.output
    /\ fm' = [fm EXCEPT !.edge = FormatterEdges(prog.output)]
    /\ pc' = "structs"
    /\ UNCHANGED <<index, prog, call>>

\* Formatter: struct_unit, struct_plain, struct_tuple
RuleStructs ==
    /\ pc = "structs"
    /\ fm' = [fm EXCEPT !.struct_unit = StructUnitRule(fm.edge),
                        !.struct_plain = StructPlainRule(fm.edge),
                        !.struct_tuple = StructTupleRule(fm.edge)]
    /\ pc' = "members"
    /\ UNCHANGED <<index, prog, call>>

\* Formatter: field and variant, and the three kinds of variant
RuleMembers ==
    /\ pc = "members"
    /\ fm' = [fm EXCEPT !.field = FieldRule(fm.edge),
                        !.variant = VariantRule(fm.edge),
                        !.variant_plain = VariantPlainRule(VariantRule(fm.edge)),
                        !.variant_tuple = VariantTupleRule(VariantRule(fm.edge)),
                        !.variant_struct = VariantStructRule(VariantRule(fm.edge))]
    /\ pc' = "ordered"
    /\ UNCHANGED <<index, prog, call>>

\* Formatter: fields and variants (the aggregates over field and variant)
RuleOrdered ==
    /\ pc = "ordered"
    /\ fm' = [fm EXCEPT !.fields = FieldsRule(fm.field),
                        !.variants = VariantsRule(fm.variant)]
    /\ pc' = "format"
    /\ UNCHANGED <<index, prog, call>>

\* Formatter: format and format_named; a panic in a translation ends the run
RuleFormat ==
    /\ pc = "format"
    /\ LET format == FormatRule(fm.field, fm.fields)
           format_named == FormatNamedRule(fm.field, fm.fields)
       IN  IF \E r \in format : FormatPanics(r[2].value)
           THEN pc' = "panicked" /\ UNCHANGED fm
           ELSE /\ fm' = [fm EXCEPT !.format = format, !.format_named = format_named]
                /\ pc' = "format_variant"
    /\ UNCHANGED <<index, prog, call>>

\* Formatter: the formats of the variants and their union format_variant
RuleFormatVariant ==
    /\ pc = "format_variant"
    /\ LET plain == FormatPlainVariantRule(fm.variant_plain, fm.variants)
           tuple == FormatTupleVariantRule(fm.variant_tuple, fm.variants, fm.format)
           struct == FormatStructVariantRule(fm.variant_struct, fm.variants,
                                             fm.format_named)
       IN  fm' = [fm EXCEPT !.format_plain_variant = plain,
                            !.format_tuple_variant = tuple,
                            !.format_struct_variant = struct,
                            !.format_variant = plain \cup tuple \cup struct]
    /\ pc' = "container"
    /\ UNCHANGED <<index, prog, call>>

\* Formatter: the four rules of container
RuleContainer ==
    /\ pc = "container"
    /\ fm' = [fm EXCEPT !.container =
                ContainerPlainRule(fm.struct_plain, fm.format_named)
                \cup ContainerUnitRule(fm.struct_unit)
                \cup ContainerTupleRule(fm.struct_tuple, fm.format)
                \cup ContainerEnumRule(fm.variant, fm.format_variant)]
    /\ pc' = "done"
    /\ UNCHANGED <<index, prog, call>>

Next ==
    \/ ParseEdges
    \/ RuleApp
    \/ RuleIsEffectOfApp
    \/ RuleParent
    \/ RuleRoot
    \/ RuleOutput
    \/ RunFormatter
    \/ RuleStructs
    \/ RuleMembers
    \/ RuleOrdered
    \/ RuleFormat
    \/ RuleFormatVariant
    \/ RuleContainer

-----------------------------------------------------------------------------
(* The indexes the runs start from.  Every index holds an app:            *)
(*    1  trait App              2  struct A (unit), in module app          *)
(*    3  impl App for A         4  type Event = E      5  type ViewModel = V*)
(*   10  enum E (the Event)    20  struct V { s: S, t: T } (the ViewModel) *)
(*   21  V.s   22  V.t         30  S      40  T                            *)
(* and varies the shape of S (its kind and its fields), of E (its          *)
(* variants and their fields), and the names and attributes of S and T.    *)

MaxFields == 3      \* the most fields S declares
MaxVariants == 2    \* the most variants E declares
MaxVariantFields == 2    \* the most fields a variant of E declares

MkItem(id, kind, name, attrs, fields, ty, trait) ==
    [id |-> id, kind |-> kind, name |-> name, attrs |-> attrs, fields |-> fields,
     ty |-> ty, trait |-> trait]

TyPath(name, id, args) ==
    [t |-> "ResolvedPath", name |-> name, id |-> id, args |-> args, elems |-> <<>>]
TyPrim(name) ==
    [t |-> "Primitive", name |-> name, id |-> 0, args |-> None, elems |-> <<>>]
Angle(types) ==
    Some([g |-> "AngleBracketed", args |-> [i \in DOMAIN types |-> [a |-> "Type", ty |-> types[i]]]])

\* #[serde(<key> = "<value>")], with or without the spaces around "="
Attr(key, spaced, value) ==
    <<"#","[","s","e","r","d","e","(">> \o key
    \o (IF spaced THEN <<" ","="," ">> ELSE <<"=">>)
    \o <<"\"">> \o value \o <<"\"",")","]">>

Str_rename == <<"r","e","n","a","m","e">>
Str_rename_all == <<"r","e","n","a","m","e","_","a","l","l">>

IdsOf(items) == {x.id : x \in items}
IndexOf(items, paths) ==
    [items |-> [i \in IdsOf(items) |-> CHOOSE x \in items : x.id = i], paths |-> paths]

\* the primitive a field at position p declares: each position its own
PrimAt(p) ==
    CASE p = 1 -> TyPrim(<<"i","8">>)
      [] p = 2 -> TyPrim(<<"i","1","6">>)
      [] p = 3 -> TyPrim(<<"i","3","2">>)
      [] OTHER -> TyPrim(<<"i","6","4">>)

LetterAt(p) == <<LowerChars[p]>>
DigitAt(p) == CASE p = 1 -> <<"0">> [] p = 2 -> <<"1">> [] p = 3 -> <<"2">> [] OTHER -> <<"3">>

\* How a field is declared:
\*   "plain"    x: iN
\*   "skip"     #[serde(skip)] x: iN
\*   "private"  __private_field: iN
\*   "renamed_private"  #[serde(rename = "x")] __private_field: iN
\*   "stripped" a position of a tuple whose field the index does not hold
NamedFlavors == {"plain", "skip", "private", "renamed_private"}
TupleFlavors == {"plain", "skip", "stripped"}

FieldOf(id, p, named, flavor) ==
    MkItem(id, "StructField",
           Some(IF flavor \in {"private", "renamed_private"} THEN PrivateFieldName
                ELSE IF named THEN LetterAt(p) ELSE DigitAt(p)),
           CASE flavor = "skip" -> <<Str_serde_skip>>
             [] flavor = "renamed_private" -> <<Attr(Str_rename, TRUE, <<"x">>)>>
             [] OTHER -> <<>>,
           <<>>, Some(PrimAt(p)), None)

\* the fields of an aggregate or variant with Id `parent`: field p has Id
\* 10 * parent + p
FieldIds(parent, flavors) ==
    [p \in DOMAIN flavors |->
        IF flavors[p] = "stripped" THEN None ELSE Some(10 * parent + p)]
FieldItems(parent, named, flavors) ==
    {FieldOf(10 * parent + p, p, named, flavors[p]) :
        p \in {q \in DOMAIN flavors : flavors[q] # "stripped"}}

SeqsUpTo(S, n) == UNION {[1..k -> S] : k \in 0..n}

Name_A == <<"A">>
Name_E == <<"E">>
Name_V == <<"V">>
Name_S == <<"S">>
Name_T == <<"T">>

\* the app, its impl, and the ViewModel V { s: S, t: T }
AppItems ==
    { MkItem(1, "Trait", Some(Str_App), <<>>, <<>>, None, None),
      MkItem(2, "StructUnit", Some(Name_A), <<>>, <<>>, None, None),
      MkItem(3, "Impl", None, <<>>, <<Some(4), Some(5)>>,
             Some(TyPath(Name_A, 2, None)), Some([name |-> Str_App, id |-> 1])),
      MkItem(4, "AssocType", Some(Str_Event), <<>>, <<>>,
             Some(TyPath(Name_E, 10, None)), None),
      MkItem(5, "AssocType", Some(Str_ViewModel), <<>>, <<>>,
             Some(TyPath(Name_V, 20, None)), None),
      MkItem(20, "StructPlain", Some(Name_V), <<>>, <<Some(21), Some(22)>>, None, None) }

AppPaths ==
    (1 :> <<"crux_core", "App">>) @@ (2 :> <<"app", "A">>) @@ (10 :> <<"app", "E">>)
    @@ (20 :> <<"app", "V">>) @@ (30 :> <<"app", "S">>) @@ (40 :> <<"other", "T">>)

\* V.s: S and V.t: T, the types written as the paths `s_path` and `t_path`
ViewFields(s_path, t_path) ==
    { MkItem(21, "StructField", Some(<<"s">>), <<>>, <<>>, Some(TyPath(s_path, 30, None)), None),
      MkItem(22, "StructField", Some(<<"t">>), <<>>, <<>>, Some(TyPath(t_path, 40, None)), None) }

\* enum E { P } and struct T { a: i8 }, where a family does not vary them
PlainE ==
    { MkItem(10, "Enum", Some(Name_E), <<>>, <<Some(11)>>, None, None),
      MkItem(11, "VariantPlain", Some(<<"P">>), <<>>, <<>>, None, None) }
PlainT(name, attrs) ==
    { MkItem(40, "StructPlain", name, attrs, <<Some(401)>>, None, None) }
    \cup FieldItems(40, TRUE, <<"plain">>)
PlainS(name, attrs) ==
    { MkItem(30, "StructPlain", name, attrs, <<Some(301)>>, None, None) }
    \cup FieldItems(30, TRUE, <<"plain">>)

\* Rust gives the fields of one struct or variant distinct names
DistinctNames(flavors) ==
    Cardinality({p \in DOMAIN flavors : flavors[p] \in {"private", "renamed_private"}}) <= 1

\* Family 1: the shapes of the struct S
StructShapes ==
    { [kind |-> "StructUnit", flavors |-> <<>>] }
    \cup { [kind |-> "StructPlain", flavors |-> fl] :
             fl \in {f \in SeqsUpTo(NamedFlavors, MaxFields) : DistinctNames(f)} }
    \cup { [kind |-> "StructTuple", flavors |-> fl] : fl \in SeqsUpTo(TupleFlavors, MaxFields) }

StructIndex(shape) ==
    IndexOf(AppItems \cup ViewFields(Name_S, Name_T) \cup PlainE
            \cup PlainT(Some(Name_T), <<>>)
            \cup { MkItem(30, shape.kind, Some(Name_S), <<>>,
                          FieldIds(30, shape.flavors), None, None) }
            \cup FieldItems(30, shape.kind = "StructPlain", shape.flavors),
            AppPaths)

\* Family 2: the shapes of the enum E.  A variant is [kind, skip, flavors]:
\* its VariantKind, whether it bears #[serde(skip)], and its fields.  One
\* variant of E takes every shape; the others are plain, skipped or not.
PlainVariants ==
    { [kind |-> "VariantPlain", skip |-> sk, flavors |-> <<>>] : sk \in BOOLEAN }
VariantShapes ==
    PlainVariants
    \cup { [kind |-> "VariantTuple", skip |-> FALSE, flavors |-> fl] :
             fl \in SeqsUpTo({"plain", "skip"}, MaxVariantFields) }
    \cup { [kind |-> "VariantStruct", skip |-> FALSE, flavors |-> fl] :
             fl \in {f \in SeqsUpTo({"plain", "skip", "private"}, MaxVariantFields) :
                       DistinctNames(f)} }
EnumShapes ==
    { <<>> }
    \cup UNION { { [q \in 1..n |-> IF q = p THEN subject ELSE others[q]] :
                     subject \in VariantShapes, others \in [1..n -> PlainVariants] } :
                 n \in 1..MaxVariants, p \in 1..MaxVariants }

VariantNameAt(p) == <<UpperChars[p]>>

EnumIndex(shapes) ==
    IndexOf(AppItems \cup ViewFields(Name_S, Name_T)
            \cup PlainS(Some(Name_S), <<>>) \cup PlainT(Some(Name_T), <<>>)
            \cup { MkItem(10, "Enum", Some(Name_E), <<>>,
                          [p \in DOMAIN shapes |-> Some(10 + p)], None, None) }
            \cup { MkItem(10 + p, shapes[p].kind, Some(VariantNameAt(p)),
                          IF shapes[p].skip THEN <<Str_serde_skip>> ELSE <<>>,
                          FieldIds(10 + p, shapes[p].flavors), None, None) :
                     p \in DOMAIN shapes }
            \cup UNION { FieldItems(10 + p, shapes[p].kind = "VariantStruct",
                                    shapes[p].flavors) : p \in DOMAIN shapes },
            AppPaths)

\* Family 3: the names of S and T.  S { a: i8 } is in module app and
\* T(i8) in module other; V.s is S, Option<S> or Vec<S>, and V.t is other::T.
Name_R == <<"R">>
Name_Q == <<"Q">>
ItemAttrs ==
    { <<>>,
      <<Attr(Str_rename, TRUE, Name_R)>>,
      <<Attr(Str_rename, FALSE, Name_R)>>,
      <<Attr(Str_rename, TRUE, Name_R), Attr(Str_rename, TRUE, Name_Q)>>,
      <<Attr(Str_rename_all, TRUE, Str_UPPERCASE)>> }

NameShapes ==
    { [s_name |-> sn, s_attrs |-> sa, t_name |-> tn, t_attrs |-> ta, wrap |-> w] :
        sn \in {None, Some(Name_S)}, sa \in ItemAttrs,
        tn \in {Some(Name_T), Some(Name_S)},
        ta \in {<<>>, <<Attr(Str_rename, TRUE, Name_R)>>},
        w \in {"none", "Option", "Vec"} }

\* Option and Vec are items of other crates: the paths hold them, the index
\* does not
RemotePaths ==
    (900 :> <<"core", "option", "Option">>) @@ (901 :> <<"alloc", "vec", "Vec">>)

Wrapped(wrap, ty) ==
    CASE wrap = "Option" -> TyPath(Str_Option, 900, Angle(<<ty>>))
      [] wrap = "Vec" -> TyPath(Str_Vec, 901, Angle(<<ty>>))
      [] OTHER -> ty

NameIndex(shape) ==
    IndexOf((AppItems \cup PlainE
             \cup PlainS(shape.s_name, shape.s_attrs)
             \cup { MkItem(40, "StructTuple", shape.t_name, shape.t_attrs,
                           <<Some(401)>>, None, None) }
             \cup FieldItems(40, FALSE, <<"plain">>)
             \cup { MkItem(21, "StructField", Some(<<"s">>), <<>>, <<>>,
                           Some(Wrapped(shape.wrap, TyPath(Name_S, 30, None))), None),
                    MkItem(22, "StructField", Some(<<"t">>), <<>>, <<>>,
                           Some(TyPath(<<"o","t","h","e","r",":",":">> \o shape.t_name[1], 40, None)),
                           None) }),
            AppPaths @@ RemotePaths)

Indexes ==
    {StructIndex(sh) : sh \in StructShapes}
    \cup {EnumIndex(sh) : sh \in EnumShapes}
    \cup {NameIndex(sh) : sh \in NameShapes}

Init ==
    /\ pc = "parse"
    /\ index \in Indexes
    /\ prog = NoProg
    /\ fm = NoFormatter
    /\ call = NoCall

Spec == Init /\ [][Next]_vars

-----------------------------------------------------------------------------
(* The Formatter run on an edge relation of its own: the pairs of every     *)
(* parent of the index and the members it declares, with or without the     *)
(* pairs that lead to members marked #[serde(skip)], and with or without    *)
(* the pairs of a field and the struct or enum its type names.              *)

MemberPairs(ix, with_skipped) ==
    {<<x, y>> \in (DOMAIN ix.items) \X (DOMAIN ix.items) :
        /\ ix.items[x].kind # "Impl"
        /\ Some(y) \in Range(ix.items[x].fields)
        /\ with_skipped \/ Str_serde_skip \notin Range(ix.items[y].attrs)}

TypePairs(ix) ==
    {<<f, y>> \in (DOMAIN ix.items) \X (DOMAIN ix.items) :
        /\ ix.items[f].kind = "StructField"
        /\ IsSome(ix.items[f].ty)
        /\ ix.items[f].ty[1].t = "ResolvedPath"
        /\ \/ ix.items[f].ty[1].id = y
           \/ /\ IsSome(ix.items[f].ty[1].args)
              /\ \E a \in Range(ix.items[f].ty[1].args[1].args) : a.ty.id = y}

InitFormatter ==
    /\ pc = "structs"
    /\ index \in Indexes
    /\ prog = NoProg
    /\ call = NoCall
    /\ \E with_skipped \in BOOLEAN, with_types \in BOOLEAN :
           fm = [NoFormatter EXCEPT
                   !.edge = MemberPairs(index, with_skipped)
                            \cup (IF with_types THEN TypePairs(index) ELSE {})]

NextFormatter ==
    \/ RuleStructs
    \/ RuleMembers
    \/ RuleOrdered
    \/ RuleFormat
    \/ RuleFormatVariant
    \/ RuleContainer

SpecFormatter == InitFormatter /\ [][NextFormatter]_vars

-----------------------------------------------------------------------------
(* Calls of SummaryNode::in_same_module_as and of the parser's              *)
(* are_in_same_module on two nodes, 1 and 2, whose summaries hold paths of  *)
(* up to MaxPath segments.                                                  *)

MaxPath == 3    \* the most segments of a module path
Segments == {"foo", "bar"}

ModulePaths == SeqsUpTo(Segments, MaxPath)

\* the paths of the two nodes: each node carries a summary or none
SummaryMaps ==
    { (1 :> p) @@ (2 :> q) : p \in ModulePaths, q \in ModulePaths }
    \cup { (1 :> p) : p \in ModulePaths }
    \cup { (2 :> q) : q \in ModulePaths }

InitModule ==
    /\ pc = "call"
    /\ \E paths \in SummaryMaps : index = [items |-> <<>>, paths |-> paths]
    /\ prog = NoProg
    /\ fm = NoFormatter
    /\ call = NoCall

\* summary1.in_same_module_as(&summary2), for two nodes that carry summaries
CallInSameModuleAs ==
    /\ pc = "call"
    /\ DOMAIN index.paths = {1, 2}
    /\ call' = [fn |-> "in_same_module_as",
                result |-> InSameModuleAs(index.paths[1], index.paths[2])]
    /\ pc' = "returned"
    /\ UNCHANGED <<index, prog, fm>>

\* are_in_same_module(&node1, &node2)
CallAreInSameModule ==
    /\ pc = "call"
    /\ call' = [fn |-> "are_in_same_module", result |-> are_in_same_module(1, 2)]
    /\ pc' = "returned"
    /\ UNCHANGED <<index, prog, fm>>

NextModule == CallInSameModuleAs \/ CallAreInSameModule

SpecModule == InitModule /\ [][NextModule]_vars

-----------------------------------------------------------------------------
(* Calls of field_name and variant_name on a declared name, the member's    *)
(* attributes and the enclosing container's attributes.                     *)

Name_foo == <<"f","o","o">>
Name_foo_bar == <<"f","o","o","_","b","a","r">>
Name_FooBar == <<"F","o","o","B","a","r">>
Name_bar == <<"b","a","r">>
Name_content_type == <<"c","o","n","t","e","n","t","-","t","y","p","e">>
Str_with == <<"w","i","t","h">>
Str_something == <<"s","o","m","e","t","h","i","n","g">>
Str_none == <<"n","o","n","e">>
Str_Title_Case == <<"T","i","t","l","e","C","a","s","e">>

\* the eight rule tokens of serde's rename_all
RuleTokens ==
    { Str_lowercase, Str_UPPERCASE, Str_PascalCase, Str_camelCase, Str_snake_case,
      Str_SCREAMING_SNAKE_CASE, Str_kebab_case, Str_SCREAMING_KEBAB_CASE }

DeclaredNames == { Name_foo, Name_foo_bar, Name_FooBar }

\* how the attribute lists of a call are written
NameCalls ==
    [ name : DeclaredNames,
      rename : { None, Some(Name_bar), Some(Name_content_type) },
      blank : BOOLEAN,            \* an empty attribute string before the member's own
      rule : { None } \cup { Some(t) : t \in RuleTokens \cup { Str_none, Str_Title_Case } },
      spaced : BOOLEAN,           \* blanks around the = sign
      with : BOOLEAN,             \* #[serde(with = "something")] first on the container
      container_rename : BOOLEAN  \* #[serde(rename = "bar")] on the container
    ]

MemberAttrs(c) ==
    (IF c.blank THEN << <<>> >> ELSE <<>>)
    \o (IF IsSome(c.rename) THEN << Attr(Str_rename, c.spaced, c.rename[1]) >> ELSE <<>>)

ContainerAttrs(c) ==
    (IF c.with THEN << Attr(Str_with, TRUE, Str_something) >> ELSE <<>>)
    \o (IF c.container_rename THEN << Attr(Str_rename, c.spaced, Name_bar) >> ELSE <<>>)
    \o (IF IsSome(c.rule) THEN << Attr(Str_rename_all, c.spaced, c.rule[1]) >> ELSE <<>>)

InitNames ==
    /\ pc = "call"
    /\ index = [items |-> <<>>, paths |-> <<>>]
    /\ prog = NoProg
    /\ fm = NoFormatter
    /\ \E c \in NameCalls : call = [fn |-> "none", args |-> c, result |-> <<>>]

CallFieldName ==
    /\ pc = "call"
    /\ call' = [call EXCEPT !.fn = "field_name",
                    !.result = field_name(call.args.name, MemberAttrs(call.args),
                                          ContainerAttrs(call.args))]
    /\ pc' = "returned"
    /\ UNCHANGED <<index, prog, fm>>

CallVariantName ==
    /\ pc = "call"
    /\ call' = [call EXCEPT !.fn = "variant_name",
                    !.result = variant_name(call.args.name, MemberAttrs(call.args),
                                            ContainerAttrs(call.args))]
    /\ pc' = "returned"
    /\ UNCHANGED <<index, prog, fm>>

NextNames == CallFieldName \/ CallVariantName

SpecNames == InitNames /\ [][NextNames]_vars

-----------------------------------------------------------------------------
(* parse on the indexes of an application with an effect:                   *)
(*    1  trait App    6  trait Effect                                       *)
(*    2  struct A, unit, or A { c: .. B .. } when the app has a child app    *)
(*    3  impl App for A { type Event = E (4); type ViewModel = V (5) }       *)
(*   10  enum E { P }            20  struct V { s: .. S .. } (field 21)      *)
(*   30  struct S { a: i8 }, or S { a: i8, next: Vec<S> }                    *)
(*   50  struct B; 51 impl App for B { type Event = H (52) }; 60 struct H    *)
(*   70  enum F { Q }; 72 impl Effect for F { type Ffi = G (73) }; 80 G      *)
(* The shapes vary how the traits are written in the impls, the attribute   *)
(* on V.s, the generic types around S in the type of V.s (and around B in   *)
(* the type of A.c) and which of them resolve, the module of F, and whether  *)
(* B, F and the cycle exist.                                                *)

MaxDepth == 2       \* the most generic types nested around S in V.s

Str_crux_core_App == <<"c","r","u","x","_","c","o","r","e",":",":">> \o Str_App
Str_crux_core_Effect == <<"c","r","u","x","_","c","o","r","e",":",":">> \o Str_Effect

\* "#[serde( skip )]"
Str_serde_skip_spaced ==
    <<"#","[","s","e","r","d","e","("," ","s","k","i","p"," ",")","]">>

Name_B == <<"B">>
Name_F == <<"F">>
Name_G == <<"G">>
Name_H == <<"H">>

\* S inside `depth` generic types, Option outermost, then Vec, alternating;
\* the type at level `missing` (if any) names an Id that nothing resolves
RECURSIVE WrapAt(_, _, _, _)
WrapAt(level, depth, missing, ty) ==
    IF level > depth THEN ty
    ELSE LET inner == WrapAt(level + 1, depth, missing, ty) IN
         IF level % 2 = 1
         THEN TyPath(Str_Option, IF level = missing THEN 990 + level ELSE 900,
                     Angle(<<inner>>))
         ELSE TyPath(Str_Vec, IF level = missing THEN 990 + level ELSE 901,
                     Angle(<<inner>>))

ParseShapes ==
    { [qualified |-> q, effect |-> e, child |-> c, s_attr |-> a,
       depth |-> d, missing |-> m, cycle |-> y] :
        q \in BOOLEAN, e \in {"none", "same", "other"}, c \in BOOLEAN,
        a \in {"none", "exact", "spaced"},
        d \in 0..MaxDepth, m \in 0..MaxDepth, y \in BOOLEAN }

AppOf(sh) ==
    { MkItem(1, "Trait", Some(Str_App), <<>>, <<>>, None, None),
      MkItem(3, "Impl", None, <<>>, <<Some(4), Some(5)>>,
             Some(TyPath(Name_A, 2, None)),
             Some([name |-> IF sh.qualified THEN Str_crux_core_App ELSE Str_App,
                   id |-> 1])),
      MkItem(4, "AssocType", Some(Str_Event), <<>>, <<>>,
             Some(TyPath(Name_E, 10, None)), None),
      MkItem(5, "AssocType", Some(Str_ViewModel), <<>>, <<>>,
             Some(TyPath(Name_V, 20, None)), None),
      MkItem(20, "StructPlain", Some(Name_V), <<>>, <<Some(21)>>, None, None),
      MkItem(21, "StructField", Some(<<"s">>),
             CASE sh.s_attr = "exact" -> <<Str_serde_skip>>
               [] sh.s_attr = "spaced" -> <<Str_serde_skip_spaced>>
               [] OTHER -> <<>>,
             <<>>, Some(WrapAt(1, sh.depth, sh.missing, TyPath(Name_S, 30, None))),
             None) }
    \cup PlainE
    \cup (IF sh.child
          THEN { MkItem(2, "StructPlain", Some(Name_A), <<>>, <<Some(23)>>, None, None),
                 MkItem(23, "StructField", Some(<<"c">>), <<>>, <<>>,
                        Some(WrapAt(1, sh.depth, sh.missing, TyPath(Name_B, 50, None))),
                        None),
                 MkItem(50, "StructUnit", Some(Name_B), <<>>, <<>>, None, None),
                 MkItem(51, "Impl", None, <<>>, <<Some(52)>>,
                        Some(TyPath(Name_B, 50, None)),
                        Some([name |-> Str_App, id |-> 1])),
                 MkItem(52, "AssocType", Some(Str_Event), <<>>, <<>>,
                        Some(TyPath(Name_H, 60, None)), None),
                 MkItem(60, "StructPlain", Some(Name_H), <<>>, <<Some(601)>>, None, None) }
               \cup FieldItems(60, TRUE, <<"plain">>)
          ELSE { MkItem(2, "StructUnit", Some(Name_A), <<>>, <<>>, None, None) })

\* struct S { a: i8 } or struct S { a: i8, next: Vec<S> }
CycleS(cycle) ==
    IF cycle
    THEN { MkItem(30, "StructPlain", Some(Name_S), <<>>, <<Some(301), Some(302)>>,
                  None, None),
           MkItem(302, "StructField", Some(<<"n","e","x","t">>), <<>>, <<>>,
                  Some(TyPath(Str_Vec, 901, Angle(<<TyPath(Name_S, 30, None)>>))),
                  None) }
         \cup FieldItems(30, TRUE, <<"plain">>)
    ELSE PlainS(Some(Name_S), <<>>)

EffectOf(sh) ==
    IF sh.effect = "none" THEN {}
    ELSE { MkItem(6, "Trait", Some(Str_Effect), <<>>, <<>>, None, None),
           MkItem(70, "Enum", Some(Name_F), <<>>, <<Some(71)>>, None, None),
           MkItem(71, "VariantPlain", Some(<<"Q">>), <<>>, <<>>, None, None),
           MkItem(72, "Impl", None, <<>>, <<Some(73)>>,
                  Some(TyPath(Name_F, 70, None)),
                  Some([name |-> IF sh.qualified THEN Str_crux_core_Effect
                                 ELSE Str_Effect,
                        id |-> 6])),
           MkItem(73, "AssocType", Some(Str_Ffi), <<>>, <<>>,
                  Some(TyPath(Name_G, 80, None)), None),
           MkItem(80, "StructPlain", Some(Name_G), <<>>, <<Some(801)>>, None, None) }
         \cup FieldItems(80, TRUE, <<"plain">>)

ParsePaths(sh) ==
    (1 :> <<"crux_core", "App">>) @@ (6 :> <<"crux_core", "Effect">>)
    @@ (2 :> <<"app", "A">>) @@ (10 :> <<"app", "E">>) @@ (20 :> <<"app", "V">>)
    @@ (30 :> <<"app", "S">>) @@ (50 :> <<"app", "B">>) @@ (60 :> <<"app", "H">>)
    @@ (70 :> <<IF sh.effect = "other" THEN "other" ELSE "app", "F">>)
    @@ (80 :> <<"app", "G">>) @@ RemotePaths

ParseIndex(sh) ==
    LET items == AppOf(sh) \cup CycleS(sh.cycle) \cup EffectOf(sh) IN
    IndexOf(items, [i \in {j \in DOMAIN ParsePaths(sh) : j \in IdsOf(items) \/ j >= 900}
                      |-> ParsePaths(sh)[i]])

ParseIndexes == {ParseIndex(sh) : sh \in {s \in ParseShapes : s.missing <= s.depth}}

InitParse ==
    /\ pc = "parse"
    /\ index \in ParseIndexes
    /\ prog = NoProg
    /\ fm = NoFormatter
    /\ call = NoCall

\* parse, and the hand-over of its result
NextParse ==
    \/ ParseEdges
    \/ RuleApp
    \/ RuleIsEffectOfApp
    \/ RuleParent
    \/ RuleRoot
    \/ RuleOutput
    \/ RunFormatter

SpecParse == InitParse /\ [][NextParse]_vars

\* prog.run() evaluates its rules until no rule adds a tuple: a rule that
\* can add a tuple is evaluated, and parse returns when none can
SpecParseLive == InitParse /\ [][NextParse]_vars /\ WF_vars(NextParse)

-----------------------------------------------------------------------------
(* parse item by item.  data.crate_.index is a HashMap: the loop of parse   *)
(* visits the items in an order that differs from run to run.  The indexes  *)
(* hold an app A with ViewModel V { s: S, t: other::T }, S(i8) and T(i16),  *)
(* where T may be named S as well and may bear #[serde(skip)].              *)
(* call.visited holds the items the loop has visited; the relation edge is  *)
(* the set of the tuples pushed.  After the run the registry is made of     *)
(* the container relation.                                                  *)

ScanShapes == { [t_name |-> tn, t_skip |-> sk] : tn \in {Name_T, Name_S}, sk \in BOOLEAN }

ScanIndex(sh) ==
    IndexOf({ MkItem(1, "Trait", Some(Str_App), <<>>, <<>>, None, None),
              MkItem(2, "StructUnit", Some(Name_A), <<>>, <<>>, None, None),
              MkItem(3, "Impl", None, <<>>, <<Some(5)>>,
                     Some(TyPath(Name_A, 2, None)), Some([name |-> Str_App, id |-> 1])),
              MkItem(5, "AssocType", Some(Str_ViewModel), <<>>, <<>>,
                     Some(TyPath(Name_V, 20, None)), None),
              MkItem(20, "StructPlain", Some(Name_V), <<>>, <<Some(21), Some(22)>>,
                     None, None),
              MkItem(21, "StructField", Some(<<"s">>), <<>>, <<>>,
                     Some(TyPath(Name_S, 30, None)), None),
              MkItem(22, "StructField", Some(<<"t">>), <<>>, <<>>,
                     Some(TyPath(<<"o","t","h","e","r",":",":">> \o sh.t_name, 40, None)),
                     None),
              MkItem(30, "StructTuple", Some(Name_S), <<>>, <<Some(301)>>, None, None),
              MkItem(301, "StructField", Some(<<"0">>), <<>>, <<>>, Some(PrimAt(1)), None),
              MkItem(40, "StructTuple", Some(sh.t_name),
                     IF sh.t_skip THEN <<Str_serde_skip>> ELSE <<>>,
                     <<Some(401)>>, None, None),
              MkItem(401, "StructField", Some(<<"0">>), <<>>, <<>>, Some(PrimAt(2)), None) },
            (1 :> <<"crux_core", "App">>) @@ (2 :> <<"app", "A">>)
            @@ (20 :> <<"app", "V">>) @@ (30 :> <<"app", "S">>)
            @@ (40 :> <<"other", sh.t_name[1]>>))

ScanIndexes == {ScanIndex(sh) : sh \in ScanShapes}

InitScan ==
    /\ pc = "scan"
    /\ index \in ScanIndexes
    /\ prog = NoProg
    /\ fm = NoFormatter
    /\ call = [fn |-> "parse", visited |-> {}]

\* one iteration of the loop of parse, on an item not visited yet; after the
\* last one the rules run
ScanItem ==
    /\ pc = "scan"
    /\ \E id \in ItemIds \ call.visited :
        /\ prog' = [prog EXCEPT !.edge = prog.edge \cup ItemEdges(id)]
        /\ call' = [call EXCEPT !.visited = call.visited \cup {id}]
        /\ pc' = IF call.visited \cup {id} = ItemIds THEN "app" ELSE "scan"
    /\ UNCHANGED <<index, fm>>

\* the keys of the container relation
ContainerKeys(container) == {c[1] : c \in container}

\* the registry (logic.rs is not among the sources): a mapping of each key of
\* container to its format.  The tuples of container arrive in the order the
\* rules derived them, which follows the order of the edges, and so of the
\* scan; of two tuples with one key the mapping keeps one
EmitRegistry ==
    /\ pc = "done"
    /\ \E registry \in [ContainerKeys(fm.container) -> {c[2] : c \in fm.container}] :
        /\ \A k \in ContainerKeys(fm.container) : <<k, registry[k]>> \in fm.container
        /\ call' = [fn |-> "registry", visited |-> call.visited, result |-> registry]
    /\ pc' = "emitted"
    /\ UNCHANGED <<index, prog, fm>>

NextScan ==
    \/ ScanItem
    \/ RuleApp
    \/ RuleIsEffectOfApp
    \/ RuleParent
    \/ RuleRoot
    \/ RuleOutput
    \/ RunFormatter
    \/ RuleStructs
    \/ RuleMembers
    \/ RuleOrdered
    \/ RuleFormat
    \/ RuleFormatVariant
    \/ RuleContainer
    \/ EmitRegistry

SpecScan == InitScan /\ [][NextScan]_vars

-----------------------------------------------------------------------------
(* The Formatter on structs whose second field takes every type:           *)
(*   30  struct S { a: i8, b: <type> } or struct S(i8, <type>)              *)
(*   40  struct T { a: i8 }                                                 *)
(* The field b may bear a #[serde(with = "..")] attribute.                  *)

MaxNest == 1        \* the most types nested around a leaf in the type of b

TyOther(t) == [t |-> t, name |-> <<>>, id |-> 0, args |-> None, elems |-> <<>>]
TyTuple(elems) ==
    [t |-> "Tuple", name |-> <<>>, id |-> 0, args |-> None, elems |-> elems]
TyQualified(name) ==
    [t |-> "QualifiedPath", name |-> name, id |-> 0, args |-> None, elems |-> <<>>]
Parenthesized == Some([g |-> "Parenthesized", args |-> <<>>])

\* the variants of rustdoc_types::Type that are neither a path, a primitive
\* nor a tuple
OtherTypeKinds ==
    {"BorrowedRef", "RawPointer", "Slice", "Array", "FunctionPointer", "DynTrait",
     "ImplTrait", "Generic", "Infer", "Pat"}

Str_other_W == <<"o","t","h","e","r",":",":","W">>
Str_Fn == <<"F","n">>
Str_Item == <<"I","t","e","m">>

\* the types without a type inside
LeafTypes ==
    { TyPrim(<<"b","o","o","l">>), TyPrim(<<"u","8">>), TyPrim(<<"i","3","2">>),
      TyPrim(<<"u","s","i","z","e">>),
      TyPrim(<<"f","3","2">>), TyPrim(<<"f","6","4">>), TyPrim(<<"s","t","r">>) }
    \cup { TyOther(k) : k \in OtherTypeKinds }
    \cup { TyPath(Str_String, 902, None), TyPath(Str_String, 902, Angle(<<>>)),
           TyPath(Name_T, 40, None), TyPath(Str_other_W, 50, None),
           TyPath(Str_other_W, 50, Angle(<<>>)),
           TyPath(Str_Fn, 903, Parenthesized),
           TyQualified(Str_Item) }

\* the types with up to n types nested around a leaf: Option<T>, Vec<T>,
\* W<T> and the tuple (T, bool)
RECURSIVE TypesUpTo(_)
TypesUpTo(n) ==
    IF n = 0 THEN LeafTypes
    ELSE LET inner == TypesUpTo(n - 1) IN
         inner
         \cup { TyPath(Str_Option, 900, Angle(<<ty>>)) : ty \in inner }
         \cup { TyPath(Str_Vec, 901, Angle(<<ty>>)) : ty \in inner }
         \cup { TyPath(Str_other_W, 50, Angle(<<ty>>)) : ty \in inner }
         \cup { TyTuple(<<ty, TyPrim(<<"b","o","o","l">>)>>) : ty \in inner }

FieldTypes == TypesUpTo(MaxNest)

Str_my_bytes == <<"m","y",":",":","b","y","t","e","s">>

\* the attributes of the field b
WithAttrs ==
    { <<>>,
      <<Attr(Str_with, TRUE, Str_serde_bytes)>>,
      <<Attr(Str_with, FALSE, Str_serde_bytes)>>,
      <<Attr(Str_with, TRUE, Str_something)>>,
      <<Attr(Str_with, TRUE, Str_my_bytes)>> }

TypeIndex(kind, ty, attrs) ==
    IndexOf({ MkItem(30, kind, Some(Name_S), <<>>, <<Some(301), Some(302)>>, None, None),
              FieldOf(301, 1, kind = "StructPlain", "plain"),
              MkItem(302, "StructField",
                     Some(IF kind = "StructPlain" THEN LetterAt(2) ELSE DigitAt(2)),
                     attrs, <<>>, Some(ty), None) }
            \cup PlainT(Some(Name_T), <<>>),
            (30 :> <<"app", "S">>) @@ (40 :> <<"app", "T">>))

TypeIndexes ==
    { TypeIndex(k, ty, at) :
        k \in {"StructPlain", "StructTuple"}, ty \in FieldTypes, at \in WithAttrs }

InitTypes ==
    /\ pc = "structs"
    /\ index \in TypeIndexes
    /\ prog = NoProg
    /\ call = NoCall
    /\ fm = [NoFormatter EXCEPT !.edge = MemberPairs(index, TRUE)]

SpecTypes == InitTypes /\ [][NextFormatter]_vars

-----------------------------------------------------------------------------
(* Calls of Format::from on the types with up to MaxArgs types nested.      *)

MaxArgs == 2        \* the most types nested around a leaf in a translated type

TranslatedTypes == TypesUpTo(MaxArgs)

InitTranslate ==
    /\ pc = "call"
    /\ index = [items |-> <<>>, paths |-> <<>>]
    /\ prog = NoProg
    /\ fm = NoFormatter
    /\ call \in {[fn |-> "none", args |-> ty, result |-> PanicFormat] :
                   ty \in TranslatedTypes}

\* Format::from(&type_)
CallFormatFrom ==
    /\ pc = "call"
    /\ call' = [call EXCEPT !.fn = "Format::from", !.result = Format_from(call.args)]
    /\ pc' = "returned"
    /\ UNCHANGED <<index, prog, fm>>

NextTranslate == CallFormatFrom

SpecTranslate == InitTranslate /\ [][NextTranslate]_vars

-----------------------------------------------------------------------------
(* Properties of a finished run.                                            *)

\* the nodes parse reaches: the roots and every destination of output
Reachable == prog.root \cup {o[2] : o \in prog.output}

IsAggregateKind(k) == IsStructKind(k) \/ k = "Enum"

\* the reachable structs and enums that have a name
ReachableAggregates ==
    {i \in Reachable \cap ItemIds :
        IsAggregateKind(Item(i).kind) /\ IsSome(ItemNode_name(Item(i)))}

ContainersOf(key) == {c \in fm.container : c[1] = key}

\* C1: when the run is done, every reachable named struct or enum has exactly
\* one container under its key, and no key has two different containers
C1_OneContainerEach ==
    pc = "done" =>
        /\ \A a \in ReachableAggregates :
               Cardinality(ContainersOf(ItemNode_name(Item(a))[1])) = 1
        /\ \A c, d \in fm.container : c[1] = d[1] => c = d


\* the member carries the attribute #[serde(skip)]
SkipMarked(id) == \E a \in Range(Item(id).attrs) : a = Str_serde_skip

\* the members a parent declares that the index holds, in declaration order
DeclaredMembers(x) ==
    LET ids == PresentIds(Item(x).fields)
        present(id) == id \in ItemIds
    IN  SelectSeq(ids, present)

\* the indexed formats the Formatter derived for the members of x
MemberFormats(x) ==
    CASE Item(x).kind \in {"StructPlain", "VariantStruct"} -> Collect(fm.format_named, x)
      [] Item(x).kind \in {"StructTuple", "VariantTuple"} -> Collect(fm.format, x)
      [] Item(x).kind = "Enum" -> Collect(fm.format_variant, x)
      [] OTHER -> {}

\* what the format of member id of x shows besides its index: the name and
\* type of a named field, the type of a positional field, the name of a variant
MemberTag(x, id) ==
    CASE Item(x).kind \in {"StructPlain", "VariantStruct"} ->
             make_named_format(Item(id), <<id>>, Item(x))[1].value
      [] Item(x).kind \in {"StructTuple", "VariantTuple"} ->
             make_format(Item(id), <<id>>)[1].value
      [] OTHER -> variant_name(Item(id).name[1], Item(id).attrs, Item(x).attrs)

FormatTag(x, r) == IF Item(x).kind = "Enum" THEN r.value.name ELSE r.value

\* the children of the descriptor of x, as the formats of x list them by index
ListedInOrder(x) ==
    LET formats == MemberFormats(x) IN
    [i \in 1..Cardinality(formats) |->
        LET r == CHOOSE r \in formats : r.index = i - 1 IN
        IF Item(x).kind = "Enum" THEN r ELSE r.value]

Registered(x) ==
    /\ x \in fm.struct_plain \cup fm.struct_tuple \cup Sources(fm.variant)
    /\ IsSome(ItemNode_name(Item(x)))

\* the indices of the members of every parent are 0..k-1 without a gap or a
\* duplicate, the format with index i is that of the i-th member that Keep
\* retains, in declaration order, and a registered descriptor lists its
\* children by ascending index
IndexIsPosition(Keep(_, _)) ==
    pc = "done" =>
        \A x \in Sources(fm.edge) :
            Item(x).kind \in {"StructPlain", "StructTuple", "VariantStruct",
                              "VariantTuple", "Enum"} =>
            LET keep(id) == Keep(x, id)
                kept == SelectSeq(DeclaredMembers(x), keep)
                formats == MemberFormats(x)
            IN  /\ {r.index : r \in formats} = 0..(Len(kept) - 1)
                /\ Cardinality(formats) = Len(kept)
                /\ \A r \in formats : FormatTag(x, r) = MemberTag(x, kept[r.index + 1])
                /\ Registered(x) =>
                     \E c \in ContainersOf(ItemNode_name(Item(x))[1]) :
                         c[2].fs = ListedInOrder(x)

KeptUnlessSkipped(x, id) == ~SkipMarked(id)

\* a field of a struct is also left out when its name, after a rename of its
\* own, is __private_field
KeptByParent(x, id) ==
    /\ ~SkipMarked(id)
    /\ IsStructKind(Item(x).kind) => ItemNode_name(Item(id)) # Some(PrivateFieldName)

\* C2 as stated: the index of a child is its position in declaration order
\* after removing the members marked #[serde(skip)], and only those
C2_PositionAmongUnskipped == IndexIsPosition(KeptUnlessSkipped)

\* C2: the children of every descriptor are listed by ascending index, the
\* indices are exactly 0..k-1, and the index of a child is its position in
\* declaration order among the members its parent retains: those not marked
\* #[serde(skip)] and, in a struct, not named __private_field
C2_PositionAmongRetained == IndexIsPosition(KeptByParent)

\* a registered struct of three declared fields, the second one skipped,
\* whose third field is listed with index 1
C2_Witness ==
    /\ pc = "done"
    /\ \E x \in fm.struct_plain \cup fm.struct_tuple :
           /\ Registered(x)
           /\ Len(DeclaredMembers(x)) = 3
           /\ SkipMarked(DeclaredMembers(x)[2])
           /\ \E r \in MemberFormats(x) :
                  r.index = 1 /\ r.value = MemberTag(x, DeclaredMembers(x)[3])

HasMembers(x) ==
    Item(x).kind \in {"StructPlain", "StructTuple", "VariantStruct", "VariantTuple", "Enum"}

\* some format of the members of x is the one of its declared member id
Listed(x, id) == \E r \in MemberFormats(x) : FormatTag(x, r) = MemberTag(x, id)

\* C3: no member marked #[serde(skip)] and no field whose source name is
\* __private_field is listed for its parent, be it a struct, a tuple variant
\* or a struct variant, and whether or not the private field has a rename
C3_SkippedAndPrivateAbsent ==
    pc = "done" =>
        \A x \in Sources(fm.edge) : HasMembers(x) =>
            \A i \in DOMAIN DeclaredMembers(x) :
                LET id == DeclaredMembers(x)[i] IN
                (SkipMarked(id) \/ Item(id).name = Some(PrivateFieldName))
                    => ~Listed(x, id)

\* the positional fields of x that are not marked #[serde(skip)]
Unskipped(x) ==
    LET keep(id) == ~SkipMarked(id) IN SelectSeq(DeclaredMembers(x), keep)

\* the formats of the declared types of the unskipped positional fields of x
Positional(x) ==
    [i \in DOMAIN Unskipped(x) |-> make_format(Item(Unskipped(x)[i]),
                                           <<Unskipped(x)[i]>>)[1].value]

\* C4: the descriptor emitted for a tuple struct or a tuple variant follows
\* from the number k of its unskipped positional fields: Unit (UnitStruct
\* for a struct) for k = 0, NewType of the one field for k = 1, and Tuple of
\* the k fields in order for k >= 2
C4_CollapseByCount ==
    pc = "done" =>
        /\ \A x \in fm.struct_tuple : IsSome(ItemNode_name(Item(x))) =>
               LET k == Len(Unskipped(x)) IN
               <<ItemNode_name(Item(x))[1],
                 [c |-> CASE k = 0 -> "UnitStruct" [] k = 1 -> "NewTypeStruct"
                          [] OTHER -> "TupleStruct",
                  fs |-> Positional(x)]>> \in fm.container
        /\ \A ev \in fm.variant_tuple :
               LET k == Len(Unskipped(ev[2]))
                   value == [v |-> CASE k = 0 -> "Unit" [] k = 1 -> "NewType"
                                     [] OTHER -> "Tuple",
                             fs |-> Positional(ev[2])]
               IN  /\ \E r \in Collect(fm.format_variant, ev[1]) :
                          /\ r.value.name = MemberTag(ev[1], ev[2])
                          /\ r.value.value = value
                   /\ \E c \in ContainersOf(ItemNode_name(Item(ev[1]))[1]) :
                          \E i \in DOMAIN c[2].fs :
                              /\ c[2].fs[i].value.name = MemberTag(ev[1], ev[2])
                              /\ c[2].fs[i].value.value = value

\* a tuple struct of two declared fields, one of them skipped, is registered
\* as a NewTypeStruct
C4_Witness ==
    /\ pc = "done"
    /\ \E x \in fm.struct_tuple :
           /\ Len(DeclaredMembers(x)) = 2 /\ Len(Unskipped(x)) = 1
           /\ \E c \in ContainersOf(ItemNode_name(Item(x))[1]) :
                  c[2].c = "NewTypeStruct"

\* C5: every reachable named struct without an unskipped field (a unit
\* struct, a plain or tuple struct of no fields, a struct whose fields are all
\* skipped) is registered as UnitStruct
C5_EmptyStructIsUnitStruct ==
    pc = "done" =>
        \A a \in ReachableAggregates :
            (IsStructKind(Item(a).kind) /\ Len(Unskipped(a)) = 0) =>
                <<ItemNode_name(Item(a))[1], make_struct_unit>> \in fm.container


\* the structs and enums the Formatter makes a container for
Described == fm.struct_unit \cup fm.struct_plain \cup fm.struct_tuple
             \cup Sources(fm.variant)

\* the key the rule of member names gives an item: its first rename, else
\* its source name, and none when it has neither
KeyByMemberRule(item) ==
    IF IsSome(FindMapCaptures(RenameRegex, item.attrs)) \/ IsSome(item.name)
    THEN Some(field_name(IF IsSome(item.name) THEN item.name[1] ELSE <<>>,
                         item.attrs, <<>>))
    ELSE None

\* C6: the keys of the registry are, for every described struct or enum, its
\* rename when it has one and its source name otherwise, chosen as the name
\* of a member is chosen; an item with neither has no entry
C6_KeyIsRenameElseName ==
    pc = "done" =>
        {c[1] : c \in fm.container}
            = {KeyByMemberRule(Item(x))[1] :
                 x \in {y \in Described : IsSome(KeyByMemberRule(Item(y)))}}

\* a declared type agrees with its format when every struct or enum of the
\* index that it names, itself or as a generic argument, is a TypeName with
\* the key of that struct or enum
RECURSIVE RefersByKey(_, _)
RefersByKey(ty, format) ==
    IF ty.t # "ResolvedPath" THEN TRUE
    ELSE IF /\ ty.id \in ItemIds
            /\ IsAggregateKind(Item(ty.id).kind)
            /\ IsSome(ItemNode_name(Item(ty.id)))
    THEN format = FmtTypeName(ItemNode_name(Item(ty.id))[1])
    ELSE IF IsSome(ty.args)
    THEN \A i \in DOMAIN ty.args[1].args :
             i \in DOMAIN format.of => RefersByKey(ty.args[1].args[i].ty, format.of[i])
    ELSE TRUE

\* C7: the format of every listed field names the structs and enums its
\* declared type refers to by their registry keys, so by the rename of an
\* item that has one
C7_TypeNameIsKey ==
    pc = "done" =>
        \A xf \in fm.fields :
            \A r \in Collect(fm.format, xf[1]) :
                RefersByKey(Item(xf[2][r.index + 1]).ty[1], r.value)

-----------------------------------------------------------------------------
(* Properties of the calls.                                                 *)

\* two paths name the same module: equally many segments, and every segment
\* but the last the same
SameModule(p, q) ==
    /\ Len(p) = Len(q)
    /\ \A i \in 1..(Len(p) - 1) : p[i] = q[i]

\* C8: in_same_module_as returns for every two paths, the empty one included,
\* and never aborts; it is true exactly when the paths without their last
\* segments are equal, hence of every path with itself and whichever way
\* round; are_in_same_module answers alike on two nodes with summaries
C8_SameModuleIsTotal ==
    (pc = "returned" /\ DOMAIN index.paths = {1, 2}) =>
        LET p == index.paths[1]
            q == index.paths[2]
        IN  /\ ~call.result.panicked
            /\ call.result.v = SameModule(p, q)
            /\ p = q => call.result.v
            /\ call.result = InSameModuleAs(q, p)
            /\ call.result = InSameModuleAs(p, q)
            /\ call.result = are_in_same_module(1, 2)


\* rule R applied to a declared name: to a field as snake_case input, to a
\* variant as PascalCase input
RuleApplied(fn, token, name) ==
    IF fn = "field_name" THEN RenameRule_apply_to_field(RenameRule_from_str(token), name)
    ELSE RenameRule_apply_to_variant(RenameRule_from_str(token), name)

\* C9: the name of a field or variant is the X of a rename on the member
\* itself, whatever the container carries; else rule R of a rename_all on the
\* container applied to the declared name; else the declared name; neither
\* a with attribute before the rename_all nor a rename on the container
\* changes it
C9_NamePriority ==
    pc = "returned" =>
        call.result =
            IF IsSome(call.args.rename) THEN call.args.rename[1]
            ELSE IF IsSome(call.args.rule)
            THEN RuleApplied(call.fn, call.args.rule[1], call.args.name)
            ELSE call.args.name

\* foo_bar as a field under each of the eight rules
FooBarField(token) ==
    CASE token = Str_lowercase -> <<"f","o","o","_","b","a","r">>
      [] token = Str_UPPERCASE -> <<"F","O","O","_","B","A","R">>
      [] token = Str_PascalCase -> <<"F","o","o","B","a","r">>
      [] token = Str_camelCase -> <<"f","o","o","B","a","r">>
      [] token = Str_snake_case -> <<"f","o","o","_","b","a","r">>
      [] token = Str_SCREAMING_SNAKE_CASE -> <<"F","O","O","_","B","A","R">>
      [] token = Str_kebab_case -> <<"f","o","o","-","b","a","r">>
      [] token = Str_SCREAMING_KEBAB_CASE -> <<"F","O","O","-","B","A","R">>

\* FooBar as a variant under each of the eight rules
FooBarVariant(token) ==
    CASE token = Str_lowercase -> <<"f","o","o","b","a","r">>
      [] token = Str_UPPERCASE -> <<"F","O","O","B","A","R">>
      [] token = Str_PascalCase -> <<"F","o","o","B","a","r">>
      [] token = Str_camelCase -> <<"f","o","o","B","a","r">>
      [] token = Str_snake_case -> <<"f","o","o","_","b","a","r">>
      [] token = Str_SCREAMING_SNAKE_CASE -> <<"F","O","O","_","B","A","R">>
      [] token = Str_kebab_case -> <<"f","o","o","-","b","a","r">>
      [] token = Str_SCREAMING_KEBAB_CASE -> <<"F","O","O","-","B","A","R">>

\* C10: each of the eight tokens of rename_all, kebab-case and
\* SCREAMING-KEBAB-CASE among them, is recognised and its rule is applied to
\* the members without a rename of their own (foo_bar becomes foo-bar under
\* kebab-case); only none and unknown tokens leave the declared name
C10_EightRulesRecognised ==
    (pc = "returned" /\ ~IsSome(call.args.rename) /\ IsSome(call.args.rule)) =>
        LET token == call.args.rule[1] IN
        IF token \in RuleTokens
        THEN /\ call.result = RuleApplied(call.fn, token, call.args.name)
             /\ (call.fn = "field_name" /\ call.args.name = Name_foo_bar)
                    => call.result = FooBarField(token)
             /\ (call.fn = "variant_name" /\ call.args.name = Name_FooBar)
                    => call.result = FooBarVariant(token)
        ELSE call.result = call.args.name

-----------------------------------------------------------------------------
(* Properties of parse.                                                     *)

\* parse has returned its output
ParseReturned ==
    pc \in {"structs", "members", "ordered", "format", "format_variant",
            "container", "done"}

\* the impls of the index, not skipped, whose trait path ends in the segment
\* `trait_name` and whose target type is a resolved path to a node
ImplsOf(trait_name) ==
    {i \in ItemIds :
        /\ Item(i).kind = "Impl"
        /\ ~ItemNode_should_skip(Item(i))
        /\ IsSome(Item(i).trait) /\ IsSome(Item(i).ty)
        /\ path_to_string(Item(i).trait[1].name) = trait_name
        /\ Item(i).ty[1].t = "ResolvedPath"
        /\ NodeExists(Item(i).ty[1].id)}

ImplTarget(i) == Item(i).ty[1].id

\* the Ids a list of Option<Id> holds
PresentRange(fields) == {fields[k][1] : k \in {j \in DOMAIN fields : IsSome(fields[j])}}

\* what the associated types of impl i with a name in `names` resolve to
AssocTargets(i, names) ==
    {Item(t).ty[1].id :
        t \in {u \in ItemIds \cap PresentRange(Item(i).fields) :
                /\ Item(u).kind = "AssocType"
                /\ IsSome(Item(u).name) /\ Item(u).name[1] \in names
                /\ IsSome(Item(u).ty) /\ Item(u).ty[1].t = "ResolvedPath"
                /\ NodeExists(Item(u).ty[1].id)}}

\* the nodes on the paths of edges out of the nodes of S whose edges are
\* Field, Variant or Type edges
RECURSIVE EdgeClosure(_, _)
EdgeClosure(edge, S) ==
    LET more == S \cup {e[2] : e \in {d \in edge : d[1] \in S
                                        /\ d[3] \in {"Field", "Variant", "Type"}}}
    IN  IF more = S THEN S ELSE EdgeClosure(edge, more)

\* the nodes a path of edges reaches from r: first a Field or Variant edge,
\* then Field, Variant or Type edges
ReachedFrom(edge, r) ==
    EdgeClosure(edge, {e[2] : e \in {d \in edge : d[1] = r
                                        /\ d[3] \in {"Field", "Variant"}}})

\* C11: for every App impl for A that is not skipped, when no app is the
\* parent of A, what its Event and ViewModel resolve to is in root, and every
\* node on a path of edges from there (Field or Variant first, then Field,
\* Variant or Type) is the second component of a tuple of output
C11_ReachabilityComplete ==
    ParseReturned =>
        \A i \in ImplsOf(Str_App) :
            ~HasParent(prog.parent, ImplTarget(i)) =>
                \A e \in AssocTargets(i, {Str_Event, Str_ViewModel}) :
                    /\ e \in prog.root
                    /\ ReachedFrom(prog.edge, e) \subseteq {o[2] : o \in prog.output}

\* C12: for every Effect impl whose effect type belongs to an app without a
\* parent, what its associated type Ffi resolves to is in root, as what the
\* Event and ViewModel of the App impl of such an app resolve to
C12_AssociatedTypesAreRoots ==
    ParseReturned =>
        /\ \A i \in ImplsOf(Str_Effect) :
               (\E ae \in prog.is_effect_of_app :
                    ae[2] = ImplTarget(i) /\ ~HasParent(prog.parent, ae[1]))
                   => AssocTargets(i, {Str_Ffi}) \subseteq prog.root
        /\ \A i \in ImplsOf(Str_App) :
               (ImplTarget(i) \in prog.app /\ ~HasParent(prog.parent, ImplTarget(i)))
                   => AssocTargets(i, {Str_Event, Str_ViewModel}) \subseteq prog.root

\* the least fixpoint of the rules of output
RECURSIVE OutputFixpoint(_, _, _)
OutputFixpoint(edge, root, output) ==
    LET more == output \cup OutputRound(edge, root, output) IN
    IF more = output THEN output ELSE OutputFixpoint(edge, root, more)

\* the relations of a run whose scan pushed the edges of every item
RelationsOf(edge) ==
    LET app == ImplTargets(edge, "TraitApp")
        effect == ImplTargets(edge, "TraitEffect")
        is_effect_of_app == IsEffectOfAppRule(app, effect)
        parent == ParentRule(edge, app)
        root == RootRule(edge, parent, is_effect_of_app)
    IN  [edge |-> edge, app |-> app, effect |-> effect,
         is_effect_of_app |-> is_effect_of_app, parent |-> parent, root |-> root,
         output |-> OutputFixpoint(edge, root, {})]

\* the one registry of an index: each key with the format chosen for it by
\* the index alone
RegistryOf(container) ==
    [k \in ContainerKeys(container) |->
        CHOOSE f \in {c[2] : c \in container} : <<k, f>> \in container]

-----------------------------------------------------------------------------
(* Properties of the translation of types.                                  *)

\* the constructs that have no format: every type that is neither a path, a
\* primitive, a tuple nor a qualified path, a path with parenthesized
\* arguments, and the primitives without a format
IsUnsupported(ty) ==
    \/ ty.t \in OtherTypeKinds
    \/ ty.t = "ResolvedPath" /\ IsSome(ty.args) /\ ty.args[1].g = "Parenthesized"
    \/ ty.t = "Primitive"
         /\ ty.name \in {<<"f","3","2">>, <<"f","6","4">>, <<"s","t","r">>}

\* the field S.b (Id 302) and its declared type
FieldB == Item(302)
HasWith(field) == \E a \in Range(field.attrs) : RegexIsMatch(<<"w","i","t","h">>, a)

\* the containers of S without its field b, and of T
ContainerOfSWithoutB ==
    IF Item(30).kind = "StructPlain"
    THEN [c |-> "Struct", fs |-> <<Named(<<"a">>, Fmt("I8"))>>]
    ELSE [c |-> "NewTypeStruct", fs |-> <<Fmt("I8")>>]
ContainerOfT == [c |-> "Struct", fs |-> <<Named(<<"a">>, Fmt("I8"))>>]

\* C14: when the type of the field S.b is an unsupported construct (and no
\* serde(with) attribute overrides it), the run does not abort, no format
\* tuple is made for b, the container of S is the one of S without b, and
\* the container of T is made
C14_UnsupportedIsPassedOver ==
    (IsUnsupported(FieldB.ty[1]) /\ ~HasWith(FieldB)) =>
        /\ pc # "panicked"
        /\ pc \in {"format_variant", "container", "done"} =>
               \A r \in fm.format \cup fm.format_named : r[1] = 30 => r[2].index # 1
        /\ pc = "done" =>
               /\ ContainersOf(Name_S) = {<<Name_S, ContainerOfSWithoutB>>}
               /\ ContainersOf(Name_T) = {<<Name_T, ContainerOfT>>}

\* a type made of the constructs the table of translations lists
RECURSIVE InTable(_)
InTable(ty) ==
    CASE ty.t = "ResolvedPath" ->
            \/ ~IsSome(ty.args)
            \/ /\ ty.args[1].g = "AngleBracketed"
               /\ \A i \in DOMAIN ty.args[1].args : InTable(ty.args[1].args[i].ty)
      [] ty.t = "Primitive" -> ~IsUnsupported(ty)
      [] ty.t = "Tuple" -> \A i \in DOMAIN ty.elems : InTable(ty.elems[i])
      [] ty.t = "QualifiedPath" -> TRUE
      [] OTHER -> FALSE

\* the final segment of a path, after the last "::"
RECURSIVE FinalSegment(_)
FinalSegment(name) ==
    IF \E i \in 1..(Len(name) - 1) : name[i] = ":" /\ name[i + 1] = ":"
    THEN FinalSegment(Tail(name))
    ELSE IF Len(name) > 0 /\ name[1] = ":" THEN Tail(name) ELSE name

\* the table of translations
RECURSIVE TableFormat(_)
TableFormat(ty) ==
    CASE ty.t = "ResolvedPath" ->
            (CASE ty.name = Str_String -> Fmt("Str")
               [] ty.name = Str_Option ->
                    FmtOf("Option", <<TableFormat(ty.args[1].args[1].ty)>>)
               [] ty.name = Str_Vec ->
                    FmtOf("Seq", <<TableFormat(ty.args[1].args[1].ty)>>)
               [] OTHER -> FmtTypeName(FinalSegment(ty.name)))
      [] ty.t = "Primitive" -> PrimitiveFormat(ty.name)
      [] ty.t = "Tuple" ->
            FmtOf("Tuple", [i \in DOMAIN ty.elems |-> TableFormat(ty.elems[i])])
      [] OTHER -> FmtTypeName(ty.name)

\* C15: Format::from returns, for every resolved path made of the constructs
\* of the table, what the table says: String is Str whether its arguments
\* are absent or present and empty, Option<T> is Option of T's format, Vec<T>
\* is Seq of T's format, every other path is TypeName of its final segment
C15_ResolvedPathsFollowTable ==
    (pc = "returned" /\ call.args.t = "ResolvedPath" /\ InTable(call.args)) =>
        call.result = TableFormat(call.args)

\* the value V of the attribute #[serde(with = "V")] the field bears, if any
DeclaredWith(field) ==
    LET values == {v \in {Str_serde_bytes, Str_something, Str_my_bytes} :
                     \E sp \in BOOLEAN, a \in Range(field.attrs) :
                         a = Attr(Str_with, sp, v)}
    IN  IF values = {} THEN None ELSE Some(CHOOSE v \in values : TRUE)

PastFormat == pc \in {"format_variant", "container", "done"}

\* C16: a field with #[serde(with = "serde_bytes")] has the format Bytes
\* whatever its declared type, at the index of its position, and the run does
\* not abort; with any other value of serde(with) the run aborts, it never
\* gets past the rule format
C16_SerdeWithOverride ==
    IsSome(DeclaredWith(FieldB)) =>
        IF DeclaredWith(FieldB)[1] = Str_serde_bytes
        THEN /\ pc # "panicked"
             /\ PastFormat => <<30, Indexed(1, Fmt("Bytes"))>> \in fm.format
             /\ PastFormat =>
                    \A r \in fm.format : (r[1] = 30 /\ r[2].index = 1)
                                            => r[2].value = Fmt("Bytes")
        ELSE ~PastFormat

-----------------------------------------------------------------------------
(* Properties of parse: skipped items and the edges of types.               *)

\* the items that bear #[serde(skip)]
SkippedItems == {i \in ItemIds : ItemNode_should_skip(Item(i))}

\* the nodes in the tuples of the derived relations of parse
DerivedNodes ==
    prog.app \cup prog.effect \cup prog.root
    \cup UNION {{t[1], t[2]} : t \in prog.is_effect_of_app \cup prog.parent \cup prog.output}

\* C17: after parse no item that bears #[serde(skip)] is in a tuple of app,
\* effect, is_effect_of_app, parent, root or output, at either position, and
\* none is in a pair of the edge relation handed to the Formatter
C17_SkippedInNoRelation ==
    ParseReturned =>
        /\ DerivedNodes \cap SkippedItems = {}
        /\ \A e \in fm.edge : e[1] \notin SkippedItems /\ e[2] \notin SkippedItems

\* C18: parse skips the items that ItemNode::should_skip skips: after parse
\* an item is the source of no edge when an attribute of it matches the
\* pattern of serde(skip), spaces included (#[serde( skip )]), and the items
\* parse passes over for their attribute are items should_skip skips; so no
\* tuple of output leads on from a skipped member to its type
C18_SkipIsTheSameInBothPasses ==
    ParseReturned =>
        /\ \A i \in ItemIds : ParseSkips(Item(i)) <=> ItemNode_should_skip(Item(i))
        /\ \A i \in SkippedItems : \A e \in prog.edge : e[1] # i
        /\ \A o \in prog.output : o[1] \notin SkippedItems

\* the Ids of a resolved path and of the resolved paths among its
\* angle-bracketed type arguments, at any depth
RECURSIVE PathIds(_)
PathIds(ty) ==
    IF ty.t # "ResolvedPath" THEN {}
    ELSE {ty.id}
         \cup (IF IsSome(ty.args) /\ ty.args[1].g = "AngleBracketed"
               THEN UNION {PathIds(ty.args[1].args[i].ty) : i \in DOMAIN ty.args[1].args}
               ELSE {})

\* the struct fields parse does not skip
ScannedFields ==
    {f \in ItemIds : /\ Item(f).kind = "StructField"
                     /\ ~ItemNode_should_skip(Item(f))
                     /\ IsSome(Item(f).ty)}

\* C19: after parse, every struct field that is not skipped has a Type edge
\* to each Id that resolves among its type's path and the resolved paths in
\* the type arguments at any depth, whether or not the paths around that
\* argument resolve
C19_TypeEdgesToEveryArgument ==
    ParseReturned =>
        \A f \in ScannedFields :
            \A id \in PathIds(Item(f).ty[1]) :
                NodeExists(id) => <<f, id, "Type">> \in prog.edge

\* the impls whose trait path ends in `trait_name` have their trait edge and
\* their Type edge, and is_impl_for holds of them and their target
ImplIsIdentified(trait_name, label) ==
    \A i \in ImplsOf(trait_name) :
        /\ <<i, Item(i).trait[1].id, label>> \in prog.edge
        /\ <<i, ImplTarget(i), "Type">> \in prog.edge
        /\ ImplTarget(i) \in ItemIds
              => ItemNode_is_impl_for(Item(i), Item(ImplTarget(i)), trait_name)

\* C20: after parse, every impl that is not skipped, whose trait path ends
\* in the segment App (App or crux_core::App) and whose target type T
\* resolves, has its TraitApp edge to the trait and its Type edge to T, and
\* is_impl_for(T, "App") holds of it; the same for Effect and TraitEffect
C20_TraitByFinalSegment ==
    ParseReturned =>
        /\ ImplIsIdentified(Str_App, "TraitApp")
        /\ ImplIsIdentified(Str_Effect, "TraitEffect")

-----------------------------------------------------------------------------
(* Properties of parse: the roots and the fixpoint of output.               *)

\* the type b is the type of a field of the target of another App impl, or a
\* type argument of it at any depth
ContainedInApp(b) ==
    \E j \in ImplsOf(Str_App) :
        /\ ImplTarget(j) # b
        /\ ImplTarget(j) \in ItemIds
        /\ \E f \in ItemIds \cap PresentRange(Item(ImplTarget(j)).fields) :
              /\ Item(f).kind = "StructField"
              /\ IsSome(Item(f).ty)
              /\ b \in PathIds(Item(f).ty[1])

\* the App impls of the apps no other app contains
TopLevelImpls == {i \in ImplsOf(Str_App) : ~ContainedInApp(ImplTarget(i))}

\* what the top-level apps make a root: the targets of their associated
\* types and their effects
TopLevelRoots ==
    UNION {AssocTargets(i, {Str_Event, Str_ViewModel, Str_Capabilities, Str_Ffi}) :
             i \in TopLevelImpls}
    \cup {ae[2] : ae \in {x \in prog.is_effect_of_app :
                            \E i \in TopLevelImpls : ImplTarget(i) = x[1]}}

\* C21: after parse every root is the target of an associated type of an App
\* impl for an app without parent, or an effect of an app without parent; an
\* app that is the type of a field of another app, or a type argument of it,
\* makes no root; and the roots are those of the complete parent relation
C21_RootsOfTopLevelAppsOnly ==
    ParseReturned =>
        /\ \A t \in prog.root :
              \/ \E i \in ImplsOf(Str_App) :
                    /\ ImplTarget(i) \in prog.app
                    /\ ~HasParent(prog.parent, ImplTarget(i))
                    /\ t \in AssocTargets(i, {Str_Event, Str_ViewModel,
                                              Str_Capabilities, Str_Ffi})
              \/ \E ae \in prog.is_effect_of_app :
                    ae[2] = t /\ ~HasParent(prog.parent, ae[1])
        /\ prog.root \subseteq TopLevelRoots
        /\ prog.parent = ParentRule(prog.edge, prog.app)
        /\ prog.root = RootRule(prog.edge, ParentRule(prog.edge, prog.app),
                                prog.is_effect_of_app)

\* no rule of output adds a tuple
OutputIsFixpoint ==
    OutputRound(prog.edge, prog.root, prog.output) \subseteq prog.output

\* the pair (p, c) is an edge on a path of edges that starts at a root
OnPathFromRoot(p, c) ==
    /\ \E e \in prog.edge :
          e[1] = p /\ e[2] = c /\ e[3] \in {"Variant", "Field", "Type"}
    /\ \E r \in prog.root :
          /\ p = r \/ p \in ReachedFrom(prog.edge, r)
          /\ c \in ReachedFrom(prog.edge, r)

\* C22: on every index, with or without a cycle in the types, parse returns;
\* then no rule of output adds a tuple, and every pair of output is an edge
\* on a path of edges that starts at a root
C22_FixpointTerminates ==
    /\ <>ParseReturned
    /\ [](ParseReturned =>
            /\ OutputIsFixpoint
            /\ \A o \in prog.output : OnPathFromRoot(o[1], o[2]))

\* parse has returned on an index where S has a field of the type Vec<S>:
\* output holds the pair of that field and S, and the pairs of S's fields
C22_Witness ==
    /\ ParseReturned
    /\ 302 \in ItemIds
    /\ {<<302, 30>>, <<30, 302>>, <<30, 301>>} \subseteq prog.output

====
